---- MODULE Spec2Model ----
(***************************************************************************)
(* Model of the controller-side handlers of the repository:                *)
(*   - updateAutoApprovalSettings (versioned auto-approval settings write) *)
(*   - subscribeToTriggerSelectFiles / sendTriggerSelectFilesEvent         *)
(*     (triggerSelectFiles subscription set and its fan-out)               *)
(*   - the request registry and the streaming dispatcher behind them       *)
(*   - ensureClineViewIsVisible (focus command, bounded wait, result)      *)
(*   - StateManager setApiConfiguration / getApiConfiguration              *)
(* Each async handler is split at its await points; what runs between two  *)
(* awaits is one atomic step of the single-threaded event loop.            *)
(***************************************************************************)
EXTENDS Integers, Sequences, FiniteSets, TLC

\* ------------------------------------------------------------------------
\* Bounds
\* ------------------------------------------------------------------------
MaxVersion == 5
MaxInitVersion == 3
NumCalls == 4
NumRacing == 2
NumChans == 3
NumIds == 1
NumPubs == 2
NumInsts == 2
NumViewCalls == 2
PollIntervalMs == 1000
MaxOps == 4
NumStreams == 2
MaxPushes == 3
NumVals == 2
MaxRuns == 2
MaxDiags == 1
NumCmdCalls == 2
MaxLines == 2
MaxMessages == 2

\* pWaitFor(..., { timeout: 3000 })
WaitTimeoutMs == 3000

Versions == 1..MaxVersion
Calls == 1..NumCalls
Chans == 1..NumChans
Ids == 1..NumIds
Pubs == 1..NumPubs
NoId == 0
NoChan == 0
Insts == 1..NumInsts
NoInst == 0
Streams == 1..NumStreams

\* ------------------------------------------------------------------------
\* State
\* ------------------------------------------------------------------------
VARIABLES
    stored,       \* globalState["autoApprovalSettings"]: NoSettings or a settings record
    initialSettings, \* the value of stored when the extension started (never changes)
    taskBound,    \* controller.task is set
    taskSettings, \* the settings the bound task last received
    posts,        \* number of postStateToWebview() pushes performed
    pc,           \* per call: position in updateAutoApprovalSettings
    request,      \* per call: the AutoApprovalSettingsRequest
    currentVersion, \* per call: the local const currentVersion (0 = not read yet)
    wrote,        \* per call: its updateGlobalState write has been performed
    tasked,       \* per call: it called controller.task.updateAutoApprovalSettings
    posted,       \* per call: number of state pushes it issued
    ret,          \* per call: the value returned ("none" while running)
    activeTriggerSelectFilesSubscriptions, \* the Set of subscribed response streams
    registry,     \* request registry: request id -> the stream whose cleanup it holds
    pstate,       \* per publish: "idle", "running" (awaiting Promise.all), "returned", "threw"
    snapshot,     \* per publish: Array.from(activeTriggerSelectFilesSubscriptions)
    dstate,       \* per publish and stream: "none", "pending", "ok", "failed"
    attempts,     \* per publish and stream: number of responseStream(...) calls made
    lastActiveInstance, \* WebviewProvider.getLastActiveInstance(): an instance or NoInst
    clientIdOf,   \* per instance: getClientId() returns a client id
    viewPc,       \* position of the ensureClineViewIsVisible call
    activeWebview, \* its local const activeWebview
    elapsed,      \* milliseconds the pWaitFor of the call has been polling
    waitOutcome,  \* "none", "resolved" or "timeout": how its pWaitFor ended
    polledInstance, \* the instance its last poll found
    viewResult,   \* what the call returned or threw
    shownMessages, \* the error messages the call showed
    focusCommands, \* executeCommand("cline.focusChatInput") calls of the call
    focusEvents,  \* sendFocusChatInputEvent calls of the call (their instances)
    viewCalls,    \* calls of ensureClineViewIsVisible made so far
    opLog,        \* per request id: the register/unregister calls made on it, in order
    submitted,    \* per streaming exchange: the pushes accepted, in order of submission
    delivered,    \* per streaming exchange: the messages delivered to the client, in order
    terminated,   \* per streaming exchange: its terminal push was made (entry unregistered)
    missed,       \* per streaming exchange: pushes skipped as registry misses
    secretsCache, \* StateManager.secretsCache: key -> value
    globalStateCache, \* StateManager.globalStateCache: key -> value
    taskStateCache, \* StateManager.taskStateCache: key -> value
    justDeleted,  \* the last operation on the caches was the deletion of all settings
    cleanupRuns, \* per stream: times its cleanup closure has been invoked directly
    cmdPc, \* position of the command handler call
    handler, \* which command handler is running
    cmdRequest, \* the request of the call
    cmdContext, \* the CommandContext built from the request
    formattedText, \* what formatContext resolved to
    dispatched, \* the dispatchChatAction calls made, in order
    telemetry, \* the telemetry events captured, in order
    cmdRet, \* what the handler returned
    cmdCalls, \* handler invocations made so far
    token, \* options.token given to the GitHubCopilotHandler constructor
    constructed, \* outcome of the constructor
    genPc, \* position of the createMessage generator
    genError, \* the error the generator threw
    response, \* what fetch gave
    acquired, \* whether response.body.getReader() was called
    readerLocked, \* whether the reader holds its lock on the body
    buffer, \* the text read and not yet split into a line
    lines, \* the lines of the last read still to process
    pending, \* the chunks of the current line still to yield
    yielded, \* the chunks yielded so far
    body, \* the content of the response body not yet read
    received, \* the content read so far, all reads concatenated
    cutInLine, \* whether a read ended inside a line
    doneSeen, \* whether a [DONE] line was processed
    finishedBy, \* how the generator finished
    systemPrompt, \* the systemPrompt given to transformMessages
    messages, \* the messages given to transformMessages
    transformed, \* the array transformMessages returned
    trPc \* whether transformMessages has run

updateVars == <<stored, initialSettings, taskBound, taskSettings, posts, pc, request,
                currentVersion, wrote, tasked, posted, ret>>

brokerVars == <<activeTriggerSelectFilesSubscriptions, registry, pstate,
                snapshot, dstate, attempts>>

viewVars == <<lastActiveInstance, clientIdOf, viewPc, activeWebview, elapsed,
              waitOutcome, polledInstance, viewResult, shownMessages,
              focusCommands, focusEvents, viewCalls>>

registryVars == <<opLog>>

streamVars == <<submitted, delivered, terminated, missed>>

stateVars == <<secretsCache, globalStateCache, taskStateCache, justDeleted>>

cleanupVars == <<cleanupRuns>>

commandVars == <<cmdPc, handler, cmdRequest, cmdContext, formattedText, dispatched, telemetry, cmdRet, cmdCalls>>

copilotVars == <<token, constructed, genPc, genError, response, acquired, readerLocked, buffer, lines, pending, yielded, body, received, cutInLine, doneSeen, finishedBy>>

transformVars == <<systemPrompt, messages, transformed, trPc>>

\* What the steps of one area leave alone.
otherThanUpdate == <<brokerVars, viewVars, registryVars, streamVars, stateVars, cleanupVars, commandVars, copilotVars, transformVars>>
otherThanBroker == <<updateVars, viewVars, registryVars, streamVars, stateVars, cleanupVars, commandVars, copilotVars, transformVars>>
otherThanView == <<updateVars, brokerVars, registryVars, streamVars, stateVars, cleanupVars, commandVars, copilotVars, transformVars>>
otherThanRegistry == <<updateVars, viewVars, streamVars, stateVars, cleanupVars, commandVars, copilotVars, transformVars>>
otherThanStream == <<updateVars, brokerVars, viewVars, registryVars, stateVars, cleanupVars, commandVars, copilotVars, transformVars>>
otherThanState == <<updateVars, brokerVars, viewVars, registryVars, streamVars, cleanupVars, commandVars, copilotVars, transformVars>>

otherThanCleanup == <<updateVars, viewVars, registryVars, streamVars, stateVars, commandVars, copilotVars, transformVars>>

otherThanCommand == <<updateVars, brokerVars, viewVars, registryVars, streamVars, stateVars, cleanupVars, copilotVars, transformVars>>

otherThanCopilot == <<updateVars, brokerVars, viewVars, registryVars, streamVars, stateVars, cleanupVars, commandVars, transformVars>>

otherThanTransform == <<updateVars, brokerVars, viewVars, registryVars, streamVars, stateVars, cleanupVars, commandVars, copilotVars>>

vars == <<updateVars, brokerVars, viewVars, registryVars, streamVars, stateVars, cleanupVars, commandVars, copilotVars, transformVars>>

NoSettings == [version |-> 0, by |-> 0]
NoRequest == [version |-> 0, by |-> 0]

\* ------------------------------------------------------------------------
\* updateAutoApprovalSettings
\* ------------------------------------------------------------------------

\* const currentVersion = currentSettings?.version ?? 1
CurrentVersionOfZero(settings) == IF settings = NoSettings THEN 0 ELSE settings.version
CurrentVersionOf(settings) == IF settings = NoSettings THEN 1 ELSE settings.version

\* if (incomingVersion > currentVersion)
IsHigherLax(incomingVersion, current) == incomingVersion >= current
IsDifferent(incomingVersion, current) == incomingVersion # current
IsHigher(incomingVersion, current) == incomingVersion > current

\* convertProtoToAutoApprovalSettings(request): the settings object carries the
\* request's version and its payload (identified here by the issuing call).
convertProtoToAutoApprovalSettings(req) == [version |-> req.version, by |-> req.by]

InFlight == {c \in Calls : pc[c] \notin {"idle", "done"}}

\* A UI surface issues the update command; the handler runs up to its first
\* await (controller.getStateToPostToWebview()).
UpdateCall(c, v) ==
    /\ pc[c] = "idle"
    /\ \A d \in Calls : d < c => pc[d] # "idle"
    /\ pc' = [pc EXCEPT ![c] = "getState"]
    /\ request' = [request EXCEPT ![c] = [version |-> v, by |-> c]]
    /\ UNCHANGED <<stored, initialSettings, taskBound, taskSettings, posts, currentVersion,
                   wrote, tasked, posted, ret, otherThanUpdate>>

\* getStateToPostToWebview() reads the stored settings; the handler's
\* continuation has not run yet.
UpdateGetState(c) ==
    /\ pc[c] = "getState"
    /\ currentVersion' = [currentVersion EXCEPT ![c] = CurrentVersionOf(stored)]
    /\ pc' = [pc EXCEPT ![c] = "compare"]
    /\ UNCHANGED <<stored, initialSettings, taskBound, taskSettings, posts, request,
                   wrote, tasked, posted, ret, otherThanUpdate>>

\* Continuation after the first await: the version test.  A higher version
\* goes on to updateGlobalState; otherwise the handler returns Empty.
UpdateCompare(c) ==
    /\ pc[c] = "compare"
    /\ IF IsHigher(request[c].version, currentVersion[c])
       THEN /\ pc' = [pc EXCEPT ![c] = "persist"]
            /\ ret' = ret
       ELSE /\ pc' = [pc EXCEPT ![c] = "done"]
            /\ ret' = [ret EXCEPT ![c] = "Empty"]
    /\ UNCHANGED <<stored, initialSettings, taskBound, taskSettings, posts, request,
                   currentVersion, wrote, tasked, posted, otherThanUpdate>>

\* await updateGlobalState(controller.context, "autoApprovalSettings", settings)
UpdatePersist(c) ==
    /\ pc[c] = "persist"
    /\ stored' = convertProtoToAutoApprovalSettings(request[c])
    /\ wrote' = [wrote EXCEPT ![c] = TRUE]
    /\ pc' = [pc EXCEPT ![c] = "task"]
    /\ UNCHANGED <<initialSettings, taskBound, taskSettings, posts, request, currentVersion,
                   tasked, posted, ret, otherThanUpdate>>

\* Continuation after updateGlobalState: the bound task (if any) receives the
\* settings, then postStateToWebview() is called.
UpdateTaskSkipped(c) ==
    /\ pc[c] = "task"
    /\ pc' = [pc EXCEPT ![c] = "post"]
    /\ UNCHANGED <<stored, initialSettings, taskBound, taskSettings, posts,
                   request, currentVersion, wrote, tasked, posted, ret, otherThanUpdate>>
UpdateTask(c) ==
    /\ pc[c] = "task"
    /\ IF taskBound
       THEN /\ taskSettings' = convertProtoToAutoApprovalSettings(request[c])
            /\ tasked' = [tasked EXCEPT ![c] = TRUE]
       ELSE UNCHANGED <<taskSettings, tasked>>
    /\ pc' = [pc EXCEPT ![c] = "post"]
    /\ UNCHANGED <<stored, initialSettings, taskBound, posts, request, currentVersion,
                   wrote, posted, ret, otherThanUpdate>>

\* await controller.postStateToWebview(); return Empty.create()
UpdatePost(c) ==
    /\ pc[c] = "post"
    /\ posts' = posts + 1
    /\ posted' = [posted EXCEPT ![c] = posted[c] + 1]
    /\ pc' = [pc EXCEPT ![c] = "done"]
    /\ ret' = [ret EXCEPT ![c] = "Empty"]
    /\ UNCHANGED <<stored, initialSettings, taskBound, taskSettings, request, currentVersion,
                   wrote, tasked, otherThanUpdate>>

\* Calls that overlap: up to NumRacing calls, each free to start while others
\* are suspended at an await.
UpdateCallRacing(c, v) ==
    /\ c <= NumRacing
    /\ UpdateCall(c, v)

\* Calls processed one after another: a call starts only when no other call
\* is in progress.
UpdateCallSerial(c, v) ==
    /\ InFlight = {}
    /\ UpdateCall(c, v)

InitUpdate ==
    /\ stored \in {NoSettings} \cup {[version |-> v, by |-> 0] : v \in 1..MaxInitVersion}
    /\ initialSettings = stored
    /\ taskBound \in BOOLEAN
    /\ taskSettings = NoSettings
    /\ posts = 0
    /\ pc = [c \in Calls |-> "idle"]
    /\ request = [c \in Calls |-> NoRequest]
    /\ currentVersion = [c \in Calls |-> 0]
    /\ wrote = [c \in Calls |-> FALSE]
    /\ tasked = [c \in Calls |-> FALSE]
    /\ posted = [c \in Calls |-> 0]
    /\ ret = [c \in Calls |-> "none"]

\* ------------------------------------------------------------------------
\* triggerSelectFiles subscriptions
\* ------------------------------------------------------------------------

\* A register that keeps an entry already held by the id.
registerRequestIfAbsent(reg, id, ch) ==
    IF reg[id] # NoChan THEN reg ELSE [reg EXCEPT ![id] = ch]

\* registerRequest(requestId, cleanup, metadata, responseStream): the entry
\* for an id is replaced, not appended.
registerRequest(reg, id, ch) == [reg EXCEPT ![id] = ch]

\* The cleanup closure: activeTriggerSelectFilesSubscriptions.delete(responseStream)
cleanupKeep(act, ch) == act
cleanupAll(act, ch) == {}
cleanup(act, ch) == act \ {ch}

\* A subscribe that registers the cleanup whether or not it got a request id.
subscribeAlwaysRegisters(ch, id) ==
    /\ activeTriggerSelectFilesSubscriptions' = activeTriggerSelectFilesSubscriptions \cup {ch}
    /\ registry' = registerRequest(registry, IF id # NoId THEN id ELSE 1, ch)
    /\ UNCHANGED <<pstate, snapshot, dstate, attempts, otherThanBroker>>

\* subscribeToTriggerSelectFiles(_controller, request, responseStream, requestId?)
subscribeToTriggerSelectFiles(ch, id) ==
    /\ activeTriggerSelectFilesSubscriptions' = activeTriggerSelectFilesSubscriptions \cup {ch}
    /\ registry' = IF id # NoId THEN registerRequest(registry, id, ch) ELSE registry
    /\ UNCHANGED <<pstate, snapshot, dstate, attempts, otherThanBroker>>

\* Connection teardown: the registry runs the cleanup registered under the
\* request id and drops the entry.
Teardown(id) ==
    /\ registry[id] # NoChan
    /\ activeTriggerSelectFilesSubscriptions' =
           cleanup(activeTriggerSelectFilesSubscriptions, registry[id])
    /\ registry' = [registry EXCEPT ![id] = NoChan]
    /\ UNCHANGED <<pstate, snapshot, dstate, attempts, otherThanBroker>>

\* The registry's unregisterRequest(id): drops the entry of id, if any.
unregisterRequest(reg, id) == [reg EXCEPT ![id] = NoChan]

\* subscribeToTriggerSelectFiles with a request id, as a call of the
\* registry's register: the stream joins the set and the entry of id is
\* set to it.
RegisterRequest(ch, id) ==
    /\ Len(opLog[id]) < MaxOps
    /\ activeTriggerSelectFilesSubscriptions' = activeTriggerSelectFilesSubscriptions \cup {ch}
    /\ registry' = registerRequest(registry, id, ch)
    /\ opLog' = [opLog EXCEPT ![id] = Append(@, "register")]
    /\ UNCHANGED <<pstate, snapshot, dstate, attempts, otherThanRegistry>>

\* The registry's unregister, on any id: the cleanup of a live entry runs
\* and the entry is dropped; nothing happens for an id without entry.
UnregisterRequest(id) ==
    /\ Len(opLog[id]) < MaxOps
    /\ activeTriggerSelectFilesSubscriptions' =
           IF registry[id] # NoChan
           THEN cleanup(activeTriggerSelectFilesSubscriptions, registry[id])
           ELSE activeTriggerSelectFilesSubscriptions
    /\ registry' = unregisterRequest(registry, id)
    /\ opLog' = [opLog EXCEPT ![id] = Append(@, "unregister")]
    /\ UNCHANGED <<pstate, snapshot, dstate, attempts, otherThanRegistry>>

\* The cleanup closure of a stream is invoked by whoever holds it.  The
\* closure exists once the stream has subscribed: the stream is in the set,
\* or the closure has run before.
RunCleanup(ch) ==
    /\ cleanupRuns[ch] < MaxRuns
    /\ ch \in activeTriggerSelectFilesSubscriptions \/ cleanupRuns[ch] > 0
    /\ activeTriggerSelectFilesSubscriptions' =
           cleanup(activeTriggerSelectFilesSubscriptions, ch)
    /\ cleanupRuns' = [cleanupRuns EXCEPT ![ch] = @ + 1]
    /\ UNCHANGED <<registry, pstate, snapshot, dstate, attempts, otherThanCleanup>>

InitCleanup == cleanupRuns = [ch \in Chans |-> 0]

Min(S) == CHOOSE x \in S : \A y \in S : x <= y

\* Array.from(activeTriggerSelectFilesSubscriptions)
ArrayFrom(act) == act

\* The streams the map iterates over: the array built when the publish
\* started, not the live Set.
TargetsLive(snap, act) == snap \cup act
Targets(snap, act) == snap

\* .map(async (responseStream) => { ... await responseStream(event, false) ... }):
\* the streams of snap whose responseStream call has been made once the
\* deliveries in settled have completed.  map runs every callback up to its
\* first await before returning, so all of snap is started at once.
StartedOneByOne(snap, settled) ==
    settled \cup (IF snap \ settled = {} THEN {} ELSE {Min(snap \ settled)})
Started(snap, settled) == snap

\* catch (error) { activeTriggerSelectFilesSubscriptions.delete(responseStream) }
OnDeliveryErrorKeep(act, failed) == act
OnDeliveryError(act, failed) == act \ failed

\* await Promise.all(promises): every per-stream promise has settled.
AllSettledNoWait(p) == TRUE
AllSettled(p) == \A ch \in snapshot[p] : dstate[p][ch] \in {"ok", "failed"}

Settled(d) == {ch \in Chans : d[ch] \in {"ok", "failed"}}

\* The calls of responseStream made by a step that leaves the deliveries of
\* publish p in state d.
Attempt(snap, att, d) ==
    [ch \in Chans |->
        IF ch \in Started(snap, Settled(d)) /\ d[ch] = "none"
        THEN att[ch] + 1 ELSE att[ch]]

MarkPending(snap, d) ==
    [ch \in Chans |->
        IF ch \in Started(snap, Settled(d)) /\ d[ch] = "none"
        THEN "pending" ELSE d[ch]]

\* sendTriggerSelectFilesEvent(): the synchronous part, up to the await of
\* Promise.all.  Publishes are issued one after another: a publish starts
\* once the previous one has returned; subscribes and teardowns interleave
\* freely with the publish in flight.
sendTriggerSelectFilesEvent(p) ==
    /\ pstate[p] = "idle"
    /\ \A q \in Pubs : q < p => pstate[q] = "returned"
    /\ LET snap == ArrayFrom(activeTriggerSelectFilesSubscriptions)
           none == [ch \in Chans |-> "none"]
           tgt == Targets(snap, activeTriggerSelectFilesSubscriptions)
       IN /\ snapshot' = [snapshot EXCEPT ![p] = snap]
          /\ dstate' = [dstate EXCEPT ![p] = MarkPending(tgt, none)]
          /\ attempts' = [attempts EXCEPT ![p] = Attempt(tgt, attempts[p], none)]
    /\ pstate' = [pstate EXCEPT ![p] = "running"]
    /\ UNCHANGED <<activeTriggerSelectFilesSubscriptions, registry, otherThanBroker>>

\* A pending responseStream(event, false) resolves.
DeliverOk(p, ch) ==
    /\ pstate[p] = "running"
    /\ dstate[p][ch] = "pending"
    /\ LET d == [dstate[p] EXCEPT ![ch] = "ok"]
           tgt == Targets(snapshot[p], activeTriggerSelectFilesSubscriptions)
       IN /\ dstate' = [dstate EXCEPT ![p] = MarkPending(tgt, d)]
          /\ attempts' = [attempts EXCEPT ![p] = Attempt(tgt, attempts[p], d)]
    /\ UNCHANGED <<activeTriggerSelectFilesSubscriptions, registry, pstate,
                   snapshot, otherThanBroker>>

\* A pending responseStream(event, false) rejects: the catch block runs.
DeliverFail(p, ch) ==
    /\ pstate[p] = "running"
    /\ dstate[p][ch] = "pending"
    /\ LET d == [dstate[p] EXCEPT ![ch] = "failed"]
           tgt == Targets(snapshot[p], activeTriggerSelectFilesSubscriptions)
       IN /\ dstate' = [dstate EXCEPT ![p] = MarkPending(tgt, d)]
          /\ attempts' = [attempts EXCEPT ![p] = Attempt(tgt, attempts[p], d)]
    /\ activeTriggerSelectFilesSubscriptions' =
           OnDeliveryError(activeTriggerSelectFilesSubscriptions, {ch})
    /\ UNCHANGED <<registry, pstate, snapshot, otherThanBroker>>

\* The promise of one map callback: try { await responseStream(...) }
\* catch (error) { ... } handles the rejection of the delivery inside the
\* callback, so the callback's own promise is fulfilled either way.
CallbackRejectedUncaught(d) == d = "failed"
CallbackRejected(d) == FALSE

\* await Promise.all(promises): rejects when one of the promises rejected,
\* and sendTriggerSelectFilesEvent then throws; otherwise it returns.
Outcome(p) ==
    IF \E ch \in snapshot[p] : CallbackRejected(dstate[p][ch])
    THEN "threw" ELSE "returned"

\* Promise.all settles and sendTriggerSelectFilesEvent completes; its array
\* of promises is dropped.
PublishReturn(p) ==
    /\ pstate[p] = "running"
    /\ AllSettled(p)
    /\ pstate' = [pstate EXCEPT ![p] = Outcome(p)]
    /\ snapshot' = [snapshot EXCEPT ![p] = {}]
    /\ dstate' = [dstate EXCEPT ![p] = [ch \in Chans |-> "none"]]
    /\ attempts' = [attempts EXCEPT ![p] = [ch \in Chans |-> 0]]
    /\ UNCHANGED <<activeTriggerSelectFilesSubscriptions, registry, otherThanBroker>>

\* ------------------------------------------------------------------------
\* ensureClineViewIsVisible (command-helpers.ts)
\* ------------------------------------------------------------------------

NoResult == [kind |-> "none", inst |-> NoInst]
Null == [kind |-> "null", inst |-> NoInst]
Threw == [kind |-> "threw", inst |-> NoInst]

\* activeWebview.controller
ControllerOf(i) == [kind |-> "controller", inst |-> i]

\* The two messages of HostProvider.window.showMessage.
CouldNotActivate == "Could not activate Cline view. Please try opening it manually."
CouldNotFind == "Could not find an active Cline chat window."

\* HostProvider.window.showMessage({ type: ShowMessageType.ERROR, message })
showMessageSilent(shown, message) == shown
showMessage(shown, message) == Append(shown, message)

\* pWaitFor's deadline: the wait has lasted its timeout.
TimedOutNever(e) == FALSE
TimedOut(e) == e >= WaitTimeoutMs

\* The condition pWaitFor polls: !!WebviewProvider.getLastActiveInstance()
Available(inst) == inst # NoInst

\* The instance lines 35-45 work on: the const read at line 20, before the
\* wait, not the instance the wait found.
CheckedInstanceFresh(captured, current) == current
CheckedInstance(captured, current) == captured

\* A call starts: await vscode.commands.executeCommand("cline.focusChatInput")
ensureClineViewIsVisible ==
    /\ viewPc \in {"idle", "done"}
    /\ viewCalls < NumViewCalls
    /\ viewCalls' = viewCalls + 1
    /\ viewPc' = "focus"
    /\ focusCommands' = 1
    /\ activeWebview' = NoInst
    /\ elapsed' = 0
    /\ waitOutcome' = "none"
    /\ polledInstance' = NoInst
    /\ viewResult' = NoResult
    /\ shownMessages' = <<>>
    /\ focusEvents' = <<>>
    /\ UNCHANGED <<lastActiveInstance, clientIdOf, otherThanView>>

\* The focus command resolves: line 20 reads the last active instance and
\* pWaitFor starts polling.
FocusCommandResolves ==
    /\ viewPc = "focus"
    /\ activeWebview' = lastActiveInstance
    /\ viewPc' = "wait"
    /\ UNCHANGED <<lastActiveInstance, clientIdOf, elapsed, waitOutcome,
                   polledInstance, viewResult, shownMessages, focusCommands,
                   focusEvents, viewCalls, otherThanView>>

\* The focus command rejects (not registered, or its handler fails): the
\* await of line 17 is outside the try block, so the call rejects with it.
FocusCommandRejects ==
    /\ viewPc = "focus"
    /\ viewResult' = Threw
    /\ viewPc' = "done"
    /\ UNCHANGED <<lastActiveInstance, clientIdOf, activeWebview, elapsed,
                   waitOutcome, polledInstance, shownMessages, focusCommands,
                   focusEvents, viewCalls, otherThanView>>

\* A poll finds no instance before the deadline.
WaitTick ==
    /\ viewPc = "wait"
    /\ ~Available(lastActiveInstance)
    /\ ~TimedOut(elapsed)
    /\ elapsed' = elapsed + PollIntervalMs
    /\ UNCHANGED <<lastActiveInstance, clientIdOf, viewPc, activeWebview,
                   waitOutcome, polledInstance, viewResult, shownMessages,
                   focusCommands, focusEvents, viewCalls, otherThanView>>

\* What the catch block around pWaitFor ends the call with: return null.
OnWaitTimeoutRethrow == Threw
OnWaitTimeout == Null

\* pWaitFor rejects at its deadline: the catch block shows the message and
\* returns null.
WaitTimeout ==
    /\ viewPc = "wait"
    /\ ~Available(lastActiveInstance)
    /\ TimedOut(elapsed)
    /\ waitOutcome' = "timeout"
    /\ shownMessages' = showMessage(shownMessages, CouldNotActivate)
    /\ viewResult' = OnWaitTimeout
    /\ viewPc' = "done"
    /\ UNCHANGED <<lastActiveInstance, clientIdOf, activeWebview, elapsed,
                   polledInstance, focusCommands, focusEvents, viewCalls,
                   otherThanView>>

\* A poll finds an instance: pWaitFor resolves and lines 35-42 run.
WaitResolves ==
    /\ viewPc = "wait"
    /\ Available(lastActiveInstance)
    /\ waitOutcome' = "resolved"
    /\ polledInstance' = lastActiveInstance
    /\ LET checked == CheckedInstance(activeWebview, lastActiveInstance)
       IN IF checked = NoInst \/ ~clientIdOf[checked]
          THEN /\ shownMessages' = showMessage(shownMessages, CouldNotFind)
               /\ viewResult' = Null
               /\ viewPc' = "done"
               /\ UNCHANGED activeWebview
          ELSE /\ activeWebview' = checked
               /\ viewPc' = "sendFocus"
               /\ UNCHANGED <<shownMessages, viewResult>>
    /\ UNCHANGED <<lastActiveInstance, clientIdOf, elapsed, focusCommands,
                   focusEvents, viewCalls, otherThanView>>

\* A return of the controller that skips the focus event.
SendFocusChatInputEventSkipped ==
    /\ viewPc = "sendFocus"
    /\ viewResult' = ControllerOf(activeWebview)
    /\ viewPc' = "done"
    /\ UNCHANGED <<lastActiveInstance, clientIdOf, activeWebview, elapsed,
                   waitOutcome, polledInstance, shownMessages, focusCommands,
                   focusEvents, viewCalls, otherThanView>>

\* await sendFocusChatInputEvent(clientId); return activeWebview.controller
SendFocusChatInputEvent ==
    /\ viewPc = "sendFocus"
    /\ focusEvents' = Append(focusEvents, activeWebview)
    /\ viewResult' = ControllerOf(activeWebview)
    /\ viewPc' = "done"
    /\ UNCHANGED <<lastActiveInstance, clientIdOf, activeWebview, elapsed,
                   waitOutcome, polledInstance, shownMessages, focusCommands,
                   viewCalls, otherThanView>>

\* A webview instance becomes the last active one.
WebviewActivated(i) ==
    /\ lastActiveInstance # i
    /\ lastActiveInstance' = i
    /\ UNCHANGED <<clientIdOf, viewPc, activeWebview, elapsed, waitOutcome,
                   polledInstance, viewResult, shownMessages, focusCommands,
                   focusEvents, viewCalls, otherThanView>>

\* The last active instance is disposed.
WebviewDisposed ==
    /\ lastActiveInstance # NoInst
    /\ lastActiveInstance' = NoInst
    /\ UNCHANGED <<clientIdOf, viewPc, activeWebview, elapsed, waitOutcome,
                   polledInstance, viewResult, shownMessages, focusCommands,
                   focusEvents, viewCalls, otherThanView>>

InitViewCall ==
    /\ viewPc = "idle"
    /\ activeWebview = NoInst
    /\ elapsed = 0
    /\ waitOutcome = "none"
    /\ polledInstance = NoInst
    /\ viewResult = NoResult
    /\ shownMessages = <<>>
    /\ focusCommands = 0
    /\ focusEvents = <<>>
    /\ viewCalls = 0

InitView ==
    /\ lastActiveInstance \in Insts \cup {NoInst}
    /\ clientIdOf \in [Insts -> BOOLEAN]
    /\ InitViewCall

\* No webview instance and no call.
InitViewQuiet ==
    /\ lastActiveInstance = NoInst
    /\ clientIdOf = [i \in Insts |-> TRUE]
    /\ InitViewCall

ViewSteps ==
    \/ FocusCommandResolves
    \/ FocusCommandRejects
    \/ WaitTick
    \/ WaitTimeout
    \/ WaitResolves
    \/ SendFocusChatInputEvent

NextView ==
    \/ ensureClineViewIsVisible
    \/ ViewSteps
    \/ \E i \in Insts : WebviewActivated(i)
    \/ WebviewDisposed

\* ------------------------------------------------------------------------
\* Streaming dispatcher: the responseStream(message, isLast) of one request
\* ------------------------------------------------------------------------

\* A push is accepted while the request is registered; the terminal push
\* unregisters it.
PushAcceptedAlways(term) == TRUE
PushAccepted(term) == ~term

Pushes(id) == Len(submitted[id]) + missed[id]

\* responseStream(message, isLast) on exchange id.  The message carries its
\* submission number.  A push on an exchange that is no longer registered
\* is a registry miss: it is skipped.
Push(id, isLast) ==
    /\ Pushes(id) < MaxPushes
    /\ IF PushAccepted(terminated[id])
       THEN /\ submitted' = [submitted EXCEPT ![id] =
                    Append(@, [n |-> Pushes(id) + 1, isLast |-> isLast])]
            /\ terminated' = [terminated EXCEPT ![id] = isLast]
            /\ UNCHANGED missed
       ELSE /\ missed' = [missed EXCEPT ![id] = @ + 1]
            /\ UNCHANGED <<submitted, terminated>>
    /\ UNCHANGED <<delivered, otherThanStream>>

\* The channel delivers the oldest accepted message not yet delivered.
Deliver(id) ==
    /\ Len(delivered[id]) < Len(submitted[id])
    /\ delivered' = [delivered EXCEPT ![id] =
            Append(@, submitted[id][Len(delivered[id]) + 1])]
    /\ UNCHANGED <<submitted, terminated, missed, otherThanStream>>

InitStream ==
    /\ submitted = [id \in Streams |-> <<>>]
    /\ delivered = [id \in Streams |-> <<>>]
    /\ terminated = [id \in Streams |-> FALSE]
    /\ missed = [id \in Streams |-> 0]

NextStream ==
    \/ \E id \in Streams, isLast \in BOOLEAN : Push(id, isLast)
    \/ \E id \in Streams : Deliver(id)

\* ------------------------------------------------------------------------
\* StateManager: setApiConfiguration / getApiConfiguration
\* ------------------------------------------------------------------------

Undefined == [kind |-> "undefined", n |-> 0]
Empty == [kind |-> "empty", n |-> 0]
SecretValue(n) == [kind |-> "secret", n |-> n]
Text(n) == [kind |-> "text", n |-> n]

\* string | undefined, for an API key, a base URL and a model id.
ApiKeys == {SecretValue(n) : n \in 1..NumVals} \cup {Undefined}
BaseUrls == {Text(n) : n \in 1..NumVals} \cup {Undefined, Empty}
ModelIds == {Text(n) : n \in 1..NumVals} \cup {Undefined}

SecretKeys == {"yourProviderApiKey"}
SettingKeys == {"yourProviderBaseUrl", "planModeYourProviderModel",
                "actModeYourProviderModel"}
AllKeys == SecretKeys \cup SettingKeys
Modes == {"plan", "act"}

ApiConfigurations ==
    [yourProviderApiKey : ApiKeys,
     yourProviderBaseUrl : BaseUrls,
     planModeYourProviderModel : ModelIds,
     actModeYourProviderModel : ModelIds]

\* JavaScript truthiness of a string | undefined, and a || b.
Truthy(v) == v.kind \notin {"undefined", "empty"}
Or(a, b) == IF Truthy(a) THEN a ELSE b

\* A batched write: every key of the batch is written to the cache.
setBatch(cache, batch) ==
    [k \in DOMAIN cache |-> IF k \in DOMAIN batch THEN batch[k] ELSE cache[k]]

\* this.setSecretsBatch({ ..., yourProviderApiKey })
SecretsBatchOf(cfg) ==
    [k \in SecretKeys |-> cfg[k]]

\* this.setGlobalStateBatch({ ..., yourProviderBaseUrl,
\* planModeYourProviderModel, actModeYourProviderModel })
GlobalStateBatchOfWithSecrets(cfg) ==
    [k \in AllKeys |-> cfg[k]]
GlobalStateBatchOf(cfg) ==
    [k \in SettingKeys |-> cfg[k]]

\* setApiConfiguration(apiConfiguration)
setApiConfiguration(cfg) ==
    /\ secretsCache' = setBatch(secretsCache, SecretsBatchOf(cfg))
    /\ globalStateCache' = setBatch(globalStateCache, GlobalStateBatchOf(cfg))
    /\ justDeleted' = FALSE
    /\ UNCHANGED <<taskStateCache, otherThanState>>

\* getApiConfiguration(): the flattened object, computed from the caches.
getApiConfiguration ==
    [yourProviderApiKey |-> secretsCache["yourProviderApiKey"],
     yourProviderBaseUrl |-> Or(taskStateCache["yourProviderBaseUrl"],
                                globalStateCache["yourProviderBaseUrl"]),
     planModeYourProviderModel |-> globalStateCache["planModeYourProviderModel"],
     actModeYourProviderModel |-> globalStateCache["actModeYourProviderModel"]]

\* The key of the model field of a mode.
ModeKey(mode) ==
    IF mode = "plan" THEN "planModeYourProviderModel" ELSE "actModeYourProviderModel"

\* getModeSpecificFields(apiConfiguration, mode).yourProviderModel
getModeSpecificFields(apiConfiguration, mode) ==
    IF mode = "plan"
    THEN apiConfiguration.planModeYourProviderModel
    ELSE apiConfiguration.actModeYourProviderModel

\* A task sets its own value of a setting.
SetTaskSetting(k, v) ==
    /\ taskStateCache[k] # v
    /\ taskStateCache' = [taskStateCache EXCEPT ![k] = v]
    /\ justDeleted' = FALSE
    /\ UNCHANGED <<secretsCache, globalStateCache, otherThanState>>

\* The settings-only bulk read: the values held by the settings store.
SettingsBulkRead == {globalStateCache[k] : k \in AllKeys} \ {Undefined}

\* The bulk deletion of all settings.
DeleteAllSettings ==
    /\ ~justDeleted
    /\ globalStateCache' = [k \in AllKeys |-> Undefined]
    /\ taskStateCache' = [k \in SettingKeys |-> Undefined]
    /\ justDeleted' = TRUE
    /\ UNCHANGED <<secretsCache, otherThanState>>

\* The deletion of the secrets, key by key of the secretKeys array.
DeleteSecrets ==
    /\ \E k \in SecretKeys : secretsCache[k] # Undefined
    /\ secretsCache' = [k \in SecretKeys |-> Undefined]
    /\ justDeleted' = FALSE
    /\ UNCHANGED <<globalStateCache, taskStateCache, otherThanState>>

InitState ==
    /\ secretsCache = [k \in SecretKeys |-> Undefined]
    /\ globalStateCache = [k \in AllKeys |-> Undefined]
    /\ taskStateCache = [k \in SettingKeys |-> Undefined]
    /\ justDeleted = FALSE

NextState ==
    \/ \E cfg \in ApiConfigurations : setApiConfiguration(cfg)
    \/ \E v \in BaseUrls : SetTaskSetting("yourProviderBaseUrl", v)
    \/ \E m \in Modes, v \in ModelIds : SetTaskSetting(ModeKey(m), v)
    \/ DeleteAllSettings
    \/ DeleteSecrets

\* ------------------------------------------------------------------------
\* formatContext (command-helpers.ts) and the command handlers
\* ------------------------------------------------------------------------

\* A text is a sequence of pieces; a string | undefined is a record.
Undef == [def |-> FALSE, s |-> <<>>]
Str(s) == [def |-> TRUE, s |-> s]

\* if (x) on a string | undefined: defined and not "".
Given(x) == x.def /\ x.s # <<>>

Severities == {"DIAGNOSTIC_ERROR", "DIAGNOSTIC_WARNING", "DIAGNOSTIC_INFORMATION",
               "DIAGNOSTIC_HINT", "UNRECOGNIZED"}

\* A Diagnostic: severity, source ("" or a name), message, and the line of
\* range.start (-1 when range or start is missing).
Diagnostics ==
    [severity : Severities, source : {<<>>, <<"eslint">>}, line : {-1, 0, 4}]

DiagLists == UNION {[1..n -> Diagnostics] : n \in 0..MaxDiags}

Prompts == {Undef, Str(<<>>), Str(<<"explain">>)}
FilePaths == {Undef, Str(<<>>), Str(<<"src/a.ts">>)}
TerminalOutputs == {Undef, Str(<<>>), Str(<<"$ ls">>)}
NoSelection == [def |-> FALSE, text |-> <<>>, languageId |-> <<>>]
Selection(text, languageId) == [def |-> TRUE, text |-> text, languageId |-> languageId]
CodeSelections ==
    {NoSelection} \cup {Selection(t, l) : t \in {<<>>, <<"x = 1">>}, l \in {<<>>, <<"ts">>}}
NoDiagnostics == [def |-> FALSE, list |-> <<>>]
DiagnosticsOf(list) == [def |-> TRUE, list |-> list]

\* CommandContext
CommandContexts ==
    [prompt : Prompts, filePath : FilePaths, codeSelection : CodeSelections,
     terminalOutput : TerminalOutputs,
     diagnostics : {NoDiagnostics} \cup {DiagnosticsOf(l) : l \in DiagLists}]

NL == "\n"

\* The three backquotes that open and close a fenced block.
Fence == "[fence]"

\* parts.join(sep)
RECURSIVE Join(_, _)
Join(parts, sep) ==
    IF parts = <<>> THEN <<>>
    ELSE IF Len(parts) = 1 THEN parts[1]
    ELSE parts[1] \o sep \o Join(Tail(parts), sep)

\* String.prototype.trim on a text whose pieces are its lines and line
\* breaks: the line breaks at both ends go.
RECURSIVE trim(_)
trim(t) ==
    IF t = <<>> THEN <<>>
    ELSE IF t[1] = NL THEN trim(Tail(t))
    ELSE IF t[Len(t)] = NL THEN trim(SubSeq(t, 1, Len(t) - 1))
    ELSE t

\* controller.getFileMentionFromPath(filePath): some non-empty text that names
\* the file.
getFileMentionFromPath(filePath) == <<"mention of ">> \o filePath

\* The switch on diagnostic.severity.
Label(severity) ==
    CASE severity = "DIAGNOSTIC_ERROR" -> "Error"
      [] severity = "DIAGNOSTIC_WARNING" -> "Warning"
      [] severity = "DIAGNOSTIC_INFORMATION" -> "Info"
      [] severity = "DIAGNOSTIC_HINT" -> "Hint"
      [] OTHER -> "Diagnostic"

\* (diagnostic.range?.start?.line || 0) + 1, as text.
LineText(line) ==
    LET n == (IF line = -1 THEN 0 ELSE line) + 1
    IN CASE n = 1 -> "1" [] n = 5 -> "5" [] OTHER -> "n"

\* `- ${source}${label} on line ${line}: ${diagnostic.message}\n`
ProblemLine(d) ==
    <<"- ">> \o (IF d.source # <<>> THEN <<"[">> \o d.source \o <<"] ">> ELSE <<>>)
        \o <<Label(d.severity), " on line ", LineText(d.line), ": ", "message", NL>>

RECURSIVE ProblemLines(_)
ProblemLines(list) ==
    IF list = <<>> THEN <<>> ELSE ProblemLine(list[1]) \o ProblemLines(Tail(list))

\* if (cond) parts.push(part)
PushAlways(parts, cond, part) == Append(parts, IF cond THEN part ELSE <<>>)
PushIf(parts, cond, part) == IF cond THEN Append(parts, part) ELSE parts

\* The separator of parts.join("\n\n")
BlankLine == <<NL, NL>>

\* formatContext(context, controller)
formatContext(context) ==
    LET p1 == PushIf(<<>>, Given(context.prompt), context.prompt.s)
        p2 == PushIf(p1, Given(context.filePath),
                     getFileMentionFromPath(context.filePath.s))
        p3 == PushIf(p2, context.codeSelection.def,
                     <<Fence>> \o context.codeSelection.languageId \o <<NL>>
                         \o context.codeSelection.text \o <<NL, Fence>>)
        p4 == PushIf(p3, Given(context.terminalOutput),
                     <<"Terminal output:", NL, Fence, NL>>
                         \o context.terminalOutput.s \o <<NL, Fence>>)
        p5 == PushIf(p4, context.diagnostics.def /\ Len(context.diagnostics.list) > 0,
                     trim(<<"Problems:", NL>> \o ProblemLines(context.diagnostics.list)))
    IN Join(p5, BlankLine)

\* ---- the command handlers: addToCline, addFileMentionToChat, addPromptToChat

Handlers == {"addToCline", "addFileMentionToChat", "addPromptToChat"}
NoHandler == "none"

\* request.submit: a boolean that may be missing.
SubmitValues == {"undefined", "false", "true"}

\* The diagnostics a request carries (a repeated field: always a list).
RequestDiagLists ==
    {<<>>, <<[severity |-> "DIAGNOSTIC_ERROR", source |-> <<"eslint">>, line |-> 4]>>}

NoCommandRequest ==
    [prompt |-> Undef, filePath |-> Undef, selectedText |-> Undef, language |-> Undef,
     diagnostics |-> <<>>, submit |-> "undefined"]

\* AddToClineRequest, AddFileMentionToChatRequest, AddPromptToChatRequest:
\* the fields a handler does not read stay at their NoCommandRequest value.
RequestsOf(h) ==
    CASE h = "addToCline" ->
            [prompt : Prompts, filePath : FilePaths,
             selectedText : {Undef, Str(<<>>), Str(<<"x = 1">>)},
             language : {Undef, Str(<<"ts">>)},
             diagnostics : RequestDiagLists, submit : SubmitValues]
      [] h = "addFileMentionToChat" ->
            {[NoCommandRequest EXCEPT !.filePath = f, !.submit = b] :
                f \in FilePaths, b \in SubmitValues}
      [] OTHER ->
            {[NoCommandRequest EXCEPT !.prompt = q, !.submit = b] :
                q \in Prompts, b \in SubmitValues}

NoContext ==
    [prompt |-> Undef, filePath |-> Undef, codeSelection |-> NoSelection,
     terminalOutput |-> Undef, diagnostics |-> NoDiagnostics]

\* The context object each handler builds from its request.
ContextOf(h, req) ==
    CASE h = "addToCline" ->
            [NoContext EXCEPT
                !.prompt = req.prompt,
                !.filePath = req.filePath,
                !.codeSelection =
                    IF Given(req.selectedText)
                    THEN Selection(req.selectedText.s,
                                   IF Given(req.language) THEN req.language.s
                                   ELSE <<>>)
                    ELSE NoSelection,
                !.diagnostics = DiagnosticsOf(req.diagnostics)]
      [] h = "addFileMentionToChat" -> [NoContext EXCEPT !.filePath = req.filePath]
      [] OTHER -> [NoContext EXCEPT !.prompt = req.prompt]

\* request.submit || false
SubmitOrTrue(submit) == submit # "false"
SubmitOrFalse(submit) == submit = "true"

\* The name given to telemetryService.captureButtonClick.
ButtonOf(h) ==
    CASE h = "addToCline" -> "command_addToCline"
      [] h = "addFileMentionToChat" -> "command_addFileMentionToChat"
      [] OTHER -> "command_addPromptToChat"

\* A handler is called: it builds the context and awaits formatContext.
\* dispatched and telemetry record what the running call has done.
CommandCall(h, req) ==
    /\ cmdPc \in {"idle", "returned", "threw"}
    /\ cmdCalls < NumCmdCalls
    /\ cmdCalls' = cmdCalls + 1
    /\ handler' = h
    /\ cmdRequest' = req
    /\ cmdContext' = ContextOf(h, req)
    /\ formattedText' = Undef
    /\ dispatched' = <<>>
    /\ telemetry' = <<>>
    /\ cmdRet' = "none"
    /\ cmdPc' = "formatting"
    /\ UNCHANGED otherThanCommand

\* formatContext resolves: the handler awaits
\* controller.dispatchChatAction(formattedText, request.submit || false).
FormatResolves ==
    /\ cmdPc = "formatting"
    /\ formattedText' = Str(formatContext(cmdContext))
    /\ dispatched' = Append(dispatched, [text |-> formattedText'.s,
                                         submit |-> SubmitOrFalse(cmdRequest.submit)])
    /\ cmdPc' = "dispatching"
    /\ UNCHANGED <<handler, cmdRequest, cmdContext, telemetry, cmdRet, cmdCalls,
                   otherThanCommand>>

\* dispatchChatAction resolves: telemetry is captured and {} returned.
DispatchResolves ==
    /\ cmdPc = "dispatching"
    /\ telemetry' = Append(telemetry, ButtonOf(handler))
    /\ cmdRet' = "Empty"
    /\ cmdPc' = "returned"
    /\ UNCHANGED <<handler, cmdRequest, cmdContext, formattedText, dispatched, cmdCalls,
                   otherThanCommand>>

\* dispatchChatAction rejects: the handler's promise rejects with it.
DispatchRejects ==
    /\ cmdPc = "dispatching"
    /\ cmdRet' = "threw"
    /\ cmdPc' = "threw"
    /\ UNCHANGED <<handler, cmdRequest, cmdContext, formattedText, dispatched, telemetry,
                   cmdCalls, otherThanCommand>>

\* formatContext applied to the context drawn at the start.
FormatContext ==
    /\ cmdPc = "context"
    /\ formattedText' = Str(formatContext(cmdContext))
    /\ cmdPc' = "formatted"
    /\ UNCHANGED <<handler, cmdRequest, cmdContext, dispatched, telemetry, cmdRet,
                   cmdCalls, otherThanCommand>>

InitCommandQuiet ==
    /\ cmdPc = "idle"
    /\ handler = NoHandler
    /\ cmdRequest = NoCommandRequest
    /\ cmdContext = NoContext
    /\ formattedText = Undef
    /\ dispatched = <<>>
    /\ telemetry = <<>>
    /\ cmdRet = "none"
    /\ cmdCalls = 0

\* Any context may be handed to formatContext.
InitFormat ==
    /\ cmdPc = "context"
    /\ handler = NoHandler
    /\ cmdRequest = NoCommandRequest
    /\ cmdContext \in CommandContexts
    /\ formattedText = Undef
    /\ dispatched = <<>>
    /\ telemetry = <<>>
    /\ cmdRet = "none"
    /\ cmdCalls = 0

NextCommands ==
    \/ \E h \in Handlers : \E req \in RequestsOf(h) : CommandCall(h, req)
    \/ FormatResolves
    \/ DispatchResolves
    \/ DispatchRejects

NextFormat == FormatContext

\* ------------------------------------------------------------------------
\* GitHubCopilotHandler (github-copilot.ts)
\* ------------------------------------------------------------------------

\* options.token
Tokens == {Undef, Str(<<>>), Str(<<"ghu_1">>)}

\* options.token || ""
OrEmpty(x) == IF Given(x) THEN x.s ELSE <<>>

\* The text of the body is a sequence of pieces: the "data: " prefix, the
\* payloads, other text, and the line break.
Prefix == "data: "
DoneSignal == "[DONE]"

\* The JSON payloads, each with what JSON.parse finds in it.
TextEvent == "{choices:[{delta:{content}}]}"
TextUsageEvent == "{choices:[{delta:{content}}],usage}"
DeltaUsageEvent == "{choices:[{delta:{}}],usage}"
UsageEvent == "{choices:[],usage}"
BadJson == "{choices:"

Events == {TextEvent, TextUsageEvent, DeltaUsageEvent, UsageEvent}

\* parsed.choices && parsed.choices[0] && parsed.choices[0].delta
HasDeltaAlways(e) == TRUE
HasDelta(e) == e \in {TextEvent, TextUsageEvent, DeltaUsageEvent}
\* parsed.choices[0].delta.content
HasContent(e) == e \in {TextEvent, TextUsageEvent}
\* parsed.usage
HasUsage(e) == e \in {TextUsageEvent, DeltaUsageEvent, UsageEvent}

\* The lines a body is made of (without their line break).
LineKinds ==
    { <<Prefix, DoneSignal>>, <<Prefix, TextEvent>>, <<Prefix, TextUsageEvent>>,
      <<Prefix, DeltaUsageEvent>>, <<Prefix, UsageEvent>>, <<Prefix, BadJson>>,
      <<Prefix>>, <<": ping">> }

RECURSIVE Terminated(_)
Terminated(ls) ==
    IF ls = <<>> THEN <<>> ELSE ls[1] \o <<NL>> \o Terminated(Tail(ls))

\* The bodies: up to MaxLines lines, each ended by a line break, and then
\* possibly one more line that is not.
Bodies ==
    {Terminated(ls) \o tail :
        ls \in UNION {[1..n -> LineKinds] : n \in 0..MaxLines},
        tail \in LineKinds \cup {<<>>}}

TextChunk == [type |-> "text"]
UsageChunk == [type |-> "usage"]

\* text.split("\n")
RECURSIVE Split(_)
Split(t) ==
    IF t = <<>> THEN << <<>> >>
    ELSE LET rest == Split(Tail(t))
         IN IF t[1] = NL THEN << <<>> >> \o rest
            ELSE << <<t[1]>> \o rest[1] >> \o Tail(rest)

\* What the body of the for loop does with one line: "done" for the
\* return, else the chunks it yields, in order.
ChunksOf(line) ==
    IF line # <<>> /\ line[1] = Prefix
    THEN LET data == Tail(line)
         IN IF data = <<>> THEN <<>>
            ELSE IF Len(data) = 1 /\ data[1] \in Events /\ HasDelta(data[1])
            THEN (IF HasContent(data[1]) THEN <<TextChunk>> ELSE <<>>)
                     \o (IF HasUsage(data[1]) THEN <<UsageChunk>> ELSE <<>>)
            ELSE <<>>
    ELSE <<>>

\* JSON.parse(data) throws: the line has the prefix and a payload that is
\* neither empty nor one whole event (nor the [DONE] signal).
ParseFails(line) ==
    /\ line # <<>>
    /\ line[1] = Prefix
    /\ Tail(line) # <<>>
    /\ Tail(line) # <<DoneSignal>>
    /\ ~(Len(line) = 2 /\ line[2] \in Events)

\* buffer = lines.pop() || ""
popDropped(split) == <<>>
pop(split) == split[Len(split)]

\* if (done) break: what is left in the buffer is not looked at.
OnStreamEndFlush(buf) == ChunksOf(buf)
OnStreamEnd(buf) == <<>>

\* data === "[DONE]"
IsDone(line) == Len(line) = 2 /\ line[1] = Prefix /\ line[2] = DoneSignal

\* Where the generator stands after running down the lines ls: at the
\* return, at the first yield, or back at reader.read().
RECURSIVE ProcessLines(_)

\* catch (e) { console.warn(...) }: on to the next line.
OnParseErrorEnds(rest) ==
    [pc |-> "done", lines |-> rest, pending |-> <<>>, out |-> <<>>, sawDone |-> FALSE]
OnParseError(rest) == ProcessLines(rest)

OnDoneContinue(rest) == [ProcessLines(rest) EXCEPT !.sawDone = TRUE]
OnDone(rest) ==
    [pc |-> "done", lines |-> rest, pending |-> <<>>, out |-> <<>>, sawDone |-> TRUE]

ProcessLines(ls) ==
    IF ls = <<>>
    THEN [pc |-> "reading", lines |-> <<>>, pending |-> <<>>, out |-> <<>>,
          sawDone |-> FALSE]
    ELSE IF IsDone(ls[1]) THEN OnDone(Tail(ls))
    ELSE IF ParseFails(ls[1]) THEN OnParseError(Tail(ls))
    ELSE LET cs == ChunksOf(ls[1])
         IN IF cs # <<>>
            THEN [pc |-> "suspended", lines |-> Tail(ls), pending |-> Tail(cs),
                  out |-> <<cs[1]>>, sawDone |-> FALSE]
            ELSE ProcessLines(Tail(ls))

\* finally { reader.releaseLock() }
releaseLockSkipped(locked) == locked
releaseLock(locked) == FALSE

NoResponse == [kind |-> "none", ok |-> FALSE, hasBody |-> FALSE]
Rejected == [kind |-> "rejected", ok |-> FALSE, hasBody |-> FALSE]
Response(ok, hasBody) == [kind |-> "response", ok |-> ok, hasBody |-> hasBody]

\* !response.ok
NotOkIgnored(r) == FALSE
NotOk(r) == ~r.ok

\* new GitHubCopilotHandler(options)
Construct(t) ==
    /\ constructed = "no"
    /\ token' = OrEmpty(t)
    /\ constructed' = IF token' = <<>> THEN "threw" ELSE "yes"
    /\ UNCHANGED <<genPc, genError, response, acquired, readerLocked, buffer, lines,
                   pending, yielded, body, received, cutInLine, doneSeen, finishedBy, otherThanCopilot>>

\* handler.createMessage(...): the generator object, its body not yet run.
CreateMessage ==
    /\ constructed = "yes"
    /\ genPc = "none"
    /\ genPc' = "start"
    /\ UNCHANGED <<token, constructed, genError, response, acquired, readerLocked,
                   buffer, lines, pending, yielded, body, received, cutInLine, doneSeen, finishedBy,
                   otherThanCopilot>>

\* The generator moves to where r says, yielding r.out.
Advance(r) ==
    /\ genPc' = r.pc
    /\ lines' = r.lines
    /\ pending' = r.pending
    /\ yielded' = yielded \o r.out
    /\ doneSeen' = (doneSeen \/ r.sawDone)
    /\ readerLocked' = IF r.pc = "done" THEN releaseLock(readerLocked) ELSE readerLocked
    /\ finishedBy' = IF r.pc = "done" THEN "[DONE]" ELSE finishedBy

\* The consumer asks for the next chunk: the body starts with the fetch,
\* or goes on from the yield it stands at.
ConsumerNext ==
    /\ \/ /\ genPc = "start"
          /\ genPc' = "fetching"
          /\ UNCHANGED <<lines, pending, yielded, doneSeen, readerLocked, finishedBy>>
       \/ /\ genPc = "suspended"
          /\ IF pending # <<>>
             THEN Advance([pc |-> "suspended", lines |-> lines, pending |-> Tail(pending),
                           out |-> <<pending[1]>>, sawDone |-> FALSE])
             ELSE Advance(ProcessLines(lines))
    /\ UNCHANGED <<token, constructed, genError, response, acquired, buffer, body,
                   received, cutInLine,                   otherThanCopilot>>

\* The consumer abandons the generator (return(), a break out of for await):
\* at a yield the finally block runs; before the first next() nothing does.
ConsumerReturn ==
    /\ genPc \in {"start", "suspended"}
    /\ genPc' = "done"
    /\ readerLocked' = IF genPc = "suspended" THEN releaseLock(readerLocked)
                       ELSE readerLocked
    /\ finishedBy' = "return"
    /\ UNCHANGED <<token, constructed, genError, response, acquired, buffer, lines,
                   pending, yielded, body, received, cutInLine, doneSeen, otherThanCopilot>>

\* fetch rejects: the catch throws the network error.
FetchRejects ==
    /\ genPc = "fetching"
    /\ response' = Rejected
    /\ genError' = "GitHub Copilot API network error"
    /\ genPc' = "threw"
    /\ UNCHANGED <<token, constructed, acquired, readerLocked, buffer, lines, pending,
                   yielded, body, received, cutInLine, doneSeen, finishedBy, otherThanCopilot>>

\* fetch resolves: a status that is not OK leads to response.text(), a
\* missing body to the throw, else the reader is taken and read.
FetchResolves(ok, hasBody) ==
    /\ genPc = "fetching"
    /\ response' = Response(ok, hasBody)
    /\ IF NotOk(response')
       THEN /\ genPc' = "errorText"
            /\ UNCHANGED <<genError, acquired, readerLocked>>
       ELSE IF ~hasBody
       THEN /\ genPc' = "threw"
            /\ genError' = "No response body from GitHub Copilot API"
            /\ UNCHANGED <<acquired, readerLocked>>
       ELSE /\ genPc' = "reading"
            /\ acquired' = TRUE
            /\ readerLocked' = TRUE
            /\ UNCHANGED genError
    /\ UNCHANGED <<token, constructed, buffer, lines, pending, yielded, body, received, cutInLine, doneSeen,
                   finishedBy, otherThanCopilot>>

\* response.text() resolves: the API error is thrown.
ErrorTextResolves ==
    /\ genPc = "errorText"
    /\ genError' = "GitHub Copilot API error"
    /\ genPc' = "threw"
    /\ UNCHANGED <<token, constructed, response, acquired, readerLocked, buffer, lines,
                   pending, yielded, body, received, cutInLine, doneSeen, finishedBy, otherThanCopilot>>

\* response.text() rejects: its error leaves the generator.
ErrorTextRejects ==
    /\ genPc = "errorText"
    /\ genError' = "response.text() error"
    /\ genPc' = "threw"
    /\ UNCHANGED <<token, constructed, response, acquired, readerLocked, buffer, lines,
                   pending, yielded, body, received, cutInLine, doneSeen, finishedBy, otherThanCopilot>>

\* reader.read() gives the next n pieces of the body: they are added to the
\* buffer, the complete lines are split off and run down.
ReadResolves(n) ==
    /\ genPc = "reading"
    /\ n \in 1..Len(body)
    /\ body' = SubSeq(body, n + 1, Len(body))
    /\ received' = received \o SubSeq(body, 1, n)
    /\ LET split == Split(buffer \o SubSeq(body, 1, n))
       IN /\ buffer' = pop(split)
          /\ Advance(ProcessLines(SubSeq(split, 1, Len(split) - 1)))
    /\ cutInLine' = (cutInLine \/ buffer' # <<>>)
    /\ UNCHANGED <<token, constructed, genError, response, acquired, otherThanCopilot>>

\* reader.read() gives done: break, finally, end.
ReadDone ==
    /\ genPc = "reading"
    /\ body = <<>>
    /\ genPc' = "done"
    /\ readerLocked' = releaseLock(readerLocked)
    /\ finishedBy' = "end"
    /\ yielded' = yielded \o OnStreamEnd(buffer)
    /\ UNCHANGED <<token, constructed, genError, response, acquired, buffer, lines,
                   pending, body, received, cutInLine, doneSeen, otherThanCopilot>>

\* reader.read() rejects: finally, and the error leaves the generator.
ReadRejects ==
    /\ genPc = "reading"
    /\ genPc' = "threw"
    /\ genError' = "read error"
    /\ readerLocked' = releaseLock(readerLocked)
    /\ finishedBy' = "error"
    /\ UNCHANGED <<token, constructed, response, acquired, buffer, lines, pending,
                   yielded, body, received, cutInLine, doneSeen, otherThanCopilot>>

InitCopilotCommon ==
    /\ token = <<>>
    /\ constructed = "no"
    /\ genPc = "none"
    /\ genError = "none"
    /\ response = NoResponse
    /\ acquired = FALSE
    /\ readerLocked = FALSE
    /\ buffer = <<>>
    /\ lines = <<>>
    /\ pending = <<>>
    /\ yielded = <<>>
    /\ received = <<>>
    /\ cutInLine = FALSE
    /\ doneSeen = FALSE
    /\ finishedBy = "none"

InitCopilotQuiet == InitCopilotCommon /\ body = <<>>

\* The server may send any body.
InitCopilot == InitCopilotCommon /\ body \in Bodies

NextCopilot ==
    \/ \E t \in Tokens : Construct(t)
    \/ CreateMessage
    \/ ConsumerNext
    \/ ConsumerReturn
    \/ FetchRejects
    \/ \E ok \in BOOLEAN, hasBody \in BOOLEAN : FetchResolves(ok, hasBody)
    \/ ErrorTextResolves
    \/ ErrorTextRejects
    \/ \E n \in 1..Len(body) : ReadResolves(n)
    \/ ReadDone
    \/ ReadRejects

\* ---- transformMessages

\* systemPrompt
SystemPrompts == {Undef, Str(<<>>), Str(<<"be brief">>)}

\* message.role
Roles == {"user", "assistant", "system", "tool"}

\* message.content: undefined, a string, or an array of parts.
NoContent == [kind |-> "undefined", s |-> <<>>]
StringContent(s) == [kind |-> "string", s |-> s]
ArrayContent(parts) == [kind |-> "array", s |-> parts]
Contents == {NoContent, StringContent(<<>>), StringContent(<<"hi">>),
             ArrayContent(<<"text", "image">>)}

Messages == [role : Roles, content : Contents]
MessageLists == UNION {[1..n -> Messages] : n \in 0..MaxMessages}

\* message.content || ""
ContentOrEmpty(c) ==
    IF c.kind = "undefined" \/ c = StringContent(<<>>) THEN StringContent(<<>>) ELSE c

\* else if (message.role === "assistant")
IsNotUser(role) == role # "user"
IsAssistant(role) == role = "assistant"

\* The for loop of transformMessages over the messages from the i-th on.
RECURSIVE TransformFrom(_, _)
TransformFrom(msgs, i) ==
    IF i > Len(msgs) THEN <<>>
    ELSE LET message == msgs[i]
             pushed ==
                 IF message.role = "user"
                 THEN IF message.content.kind = "array"
                      THEN <<[role |-> "user", content |-> message.content]>>
                      ELSE <<[role |-> "user",
                              content |-> ContentOrEmpty(message.content)]>>
                 ELSE IF IsAssistant(message.role)
                 THEN <<[role |-> "assistant",
                         content |-> ContentOrEmpty(message.content)]>>
                 ELSE <<>>
         IN pushed \o TransformFrom(msgs, i + 1)

\* transformMessages(systemPrompt, messages)
transformMessages(prompt, msgs) ==
    (IF Given(prompt)
     THEN <<[role |-> "system", content |-> StringContent(prompt.s)]>>
     ELSE <<>>) \o TransformFrom(msgs, 1)

\* createMessage transforms the messages it was given.
TransformMessages ==
    /\ trPc = "given"
    /\ transformed' = transformMessages(systemPrompt, messages)
    /\ trPc' = "transformed"
    /\ UNCHANGED <<systemPrompt, messages, otherThanTransform>>

InitTransformQuiet ==
    /\ systemPrompt = Undef
    /\ messages = <<>>
    /\ transformed = <<>>
    /\ trPc = "none"

\* Any system prompt and any messages may be given.
InitTransform ==
    /\ systemPrompt \in SystemPrompts
    /\ messages \in MessageLists
    /\ transformed = <<>>
    /\ trPc = "given"

NextTransform == TransformMessages

InitBroker ==
    /\ activeTriggerSelectFilesSubscriptions = {}
    /\ registry = [id \in Ids |-> NoChan]
    /\ pstate = [p \in Pubs |-> "idle"]
    /\ snapshot = [p \in Pubs |-> {}]
    /\ dstate = [p \in Pubs |-> [ch \in Chans |-> "none"]]
    /\ attempts = [p \in Pubs |-> [ch \in Chans |-> 0]]
    /\ opLog = [id \in Ids |-> <<>>]

\* No stored settings, no bound task, no update call issued.
InitUpdateQuiet ==
    /\ InitUpdate
    /\ stored = NoSettings
    /\ taskBound = FALSE

Init == InitUpdate /\ InitBroker /\ InitViewQuiet /\ InitStream /\ InitState /\ InitCleanup /\ InitCommandQuiet /\ InitCopilotQuiet /\ InitTransformQuiet

InitQuiet == InitUpdateQuiet /\ InitBroker /\ InitViewQuiet /\ InitStream /\ InitState /\ InitCleanup /\ InitCommandQuiet /\ InitCopilotQuiet /\ InitTransformQuiet

InitViewOnly == InitUpdateQuiet /\ InitBroker /\ InitView /\ InitStream /\ InitState /\ InitCleanup /\ InitCommandQuiet /\ InitCopilotQuiet /\ InitTransformQuiet

InitFormatOnly == InitUpdateQuiet /\ InitBroker /\ InitViewQuiet /\ InitStream /\ InitState /\ InitCleanup /\ InitFormat /\ InitCopilotQuiet /\ InitTransformQuiet

InitCopilotOnly == InitUpdateQuiet /\ InitBroker /\ InitViewQuiet /\ InitStream /\ InitState /\ InitCleanup /\ InitCommandQuiet /\ InitCopilot /\ InitTransformQuiet

InitTransformOnly == InitUpdateQuiet /\ InitBroker /\ InitViewQuiet /\ InitStream /\ InitState /\ InitCleanup /\ InitCommandQuiet /\ InitCopilotQuiet /\ InitTransform

NextBroker ==
    \/ \E ch \in Chans, id \in Ids \cup {NoId} : subscribeToTriggerSelectFiles(ch, id)
    \/ \E id \in Ids : Teardown(id)
    \/ \E p \in Pubs : sendTriggerSelectFilesEvent(p)
    \/ \E p \in Pubs, ch \in Chans : DeliverOk(p, ch)
    \/ \E p \in Pubs, ch \in Chans : DeliverFail(p, ch)
    \/ \E p \in Pubs : PublishReturn(p)

UpdateSteps ==
    \/ \E c \in Calls : UpdateGetState(c)
    \/ \E c \in Calls : UpdateCompare(c)
    \/ \E c \in Calls : UpdatePersist(c)
    \/ \E c \in Calls : UpdateTask(c)
    \/ \E c \in Calls : UpdatePost(c)

NextUpdate ==
    \/ \E c \in Calls, v \in Versions : UpdateCallRacing(c, v)
    \/ UpdateSteps

NextUpdateSerial ==
    \/ \E c \in Calls, v \in Versions : UpdateCallSerial(c, v)
    \/ UpdateSteps

\* Overlapping calls.
SpecUpdate == Init /\ [][NextUpdate]_vars

\* Calls processed one after another.
SpecUpdateSerial == Init /\ [][NextUpdateSerial]_vars

\* Subscriptions, teardowns and publishes.
SpecBroker == InitQuiet /\ [][NextBroker]_vars

NextRegistry ==
    \/ \E ch \in Chans, id \in Ids : RegisterRequest(ch, id)
    \/ \E id \in Ids : UnregisterRequest(id)
    \/ \E ch \in Chans : subscribeToTriggerSelectFiles(ch, NoId)

\* Sequences of register and unregister calls on the request registry.
SpecRegistry == InitQuiet /\ [][NextRegistry]_vars

NextCleanup ==
    \/ \E ch \in Chans : subscribeToTriggerSelectFiles(ch, NoId)
    \/ \E ch \in Chans : RunCleanup(ch)

\* Subscriptions and invocations of their cleanup closures.
SpecCleanup == InitQuiet /\ [][NextCleanup]_vars

\* Pushes and deliveries of streaming exchanges.
SpecStream == InitQuiet /\ [][NextStream]_vars

\* Writes, task overrides and deletions on the StateManager caches.
SpecState == InitQuiet /\ [][NextState]_vars

\* Calls of ensureClineViewIsVisible while webview instances come and go.
SpecView == InitViewOnly /\ [][NextView]_vars

\* The command handlers, called one after the other.
SpecCommands == InitQuiet /\ [][NextCommands]_vars

\* One GitHubCopilotHandler and one createMessage call on it.
SpecCopilot == InitCopilotOnly /\ [][NextCopilot]_vars

\* transformMessages alone, over every input.
SpecTransform == InitTransformOnly /\ [][NextTransform]_vars

\* formatContext alone, over every context.
SpecFormat == InitFormatOnly /\ [][NextFormat]_vars

\* The same, where a call in progress always takes its next step.
SpecViewFair == SpecView /\ WF_vars(ViewSteps)

\* ------------------------------------------------------------------------
\* Properties of updateAutoApprovalSettings
\* ------------------------------------------------------------------------

SettingsOf(c) == [version |-> request[c].version, by |-> c]

Started1(c) == pc[c] # "idle"

MaxOf(S) == CHOOSE x \in S : \A y \in S : y <= x

\* The version a call found in the store and its own, once the call has read.
HasRead(c) == pc[c] \notin {"idle", "getState"}
NotHigher(c) == request[c].version <= currentVersion[c]

\* C1: a call applies its write only if its incoming version is strictly
\* greater than the stored version it read: the version it compares against
\* is the one found in the store, every change of the store is the write of
\* a call whose version exceeds that version, and a call whose version is
\* equal or lower never writes.
C1_AppliedOnlyIfHigher ==
    [][ /\ \A c \in Calls :
              (pc[c] = "getState" /\ pc'[c] = "compare")
                  => currentVersion'[c] = CurrentVersionOf(stored)
        /\ (stored' # stored) =>
              \E c \in Calls : /\ pc[c] = "persist"
                               /\ request[c].version > currentVersion[c]
                               /\ stored' = SettingsOf(c)
        /\ \A c \in Calls :
              (HasRead(c) /\ NotHigher(c)) => (~wrote'[c] /\ pc'[c] \in {"compare", "done"})
      ]_vars

\* C1 witness: one call has applied a strictly higher version and another,
\* carrying exactly the stored version, has returned without writing.
C1_Witness ==
    \E c, d \in Calls :
        /\ pc[c] = "done" /\ wrote[c] /\ request[c].version > currentVersion[c]
        /\ pc[d] = "done" /\ ~wrote[d] /\ request[d].version = currentVersion[d]
        /\ stored = SettingsOf(c)

IncomingVersions == {request[c].version : c \in {d \in Calls : Started1(d)}}

\* C2: with calls processed one after another the stored version never
\* decreases, and whenever no call is in progress it equals the maximum of
\* the initial version and all incoming versions; from version 3 with
\* incoming versions 2, 3, 5, 4 only the third call (version 5) writes.
C2_SerialMonotonicMax ==
    /\ [][CurrentVersionOf(stored') >= CurrentVersionOf(stored)]_vars
    /\ [](InFlight = {} =>
            CurrentVersionOf(stored) =
                MaxOf({CurrentVersionOf(initialSettings)} \cup IncomingVersions))
    /\ []((/\ initialSettings.version = 3
           /\ \A c \in 1..4 : pc[c] = "done"
           /\ request[1].version = 2 /\ request[2].version = 3
           /\ request[3].version = 5 /\ request[4].version = 4)
          => (~wrote[1] /\ ~wrote[2] /\ wrote[3] /\ ~wrote[4]))

\* C2 witness: the run 3 -> [2, 3, 5, 4] has completed and the store holds
\* version 5, written by the third call.
C2_Witness ==
    /\ initialSettings.version = 3
    /\ \A c \in 1..4 : pc[c] = "done"
    /\ request[1].version = 2 /\ request[2].version = 3
    /\ request[3].version = 5 /\ request[4].version = 4
    /\ stored = SettingsOf(3)
    /\ posts = 1

AllDifferent == \A c, d \in Calls :
    (Started1(c) /\ Started1(d) /\ c # d) => request[c].version # request[d].version

\* C3: when overlapping calls carrying different versions have all finished,
\* the stored settings are those of the call with the highest version (or the
\* initial ones when no call exceeded them).
C3_HighestVersionWins ==
    (InFlight = {} /\ AllDifferent) =>
        /\ CurrentVersionOf(stored) =
               MaxOf({CurrentVersionOf(initialSettings)} \cup IncomingVersions)
        /\ \A c \in Calls :
               (Started1(c) /\ request[c].version = CurrentVersionOf(stored)
                 /\ request[c].version > CurrentVersionOf(initialSettings))
                   => stored = SettingsOf(c)

\* C4: a call whose version is not greater than the one it read has no side
\* effect: its own step changes neither the store, the task nor the pushes,
\* it never writes, never updates the task, never posts state, and it
\* returns Empty.
C4_RejectedNoSideEffect ==
    /\ [][\A c \in Calls :
            (pc[c] = "compare" /\ NotHigher(c) /\ pc'[c] # "compare")
                => /\ stored' = stored
                   /\ taskSettings' = taskSettings
                   /\ posts' = posts
                   /\ pc'[c] = "done"
                   /\ ret'[c] = "Empty"]_vars
    /\ [](\A c \in Calls :
            (HasRead(c) /\ NotHigher(c))
                => (~wrote[c] /\ ~tasked[c] /\ posted[c] = 0
                    /\ (pc[c] = "done" => ret[c] = "Empty")))

\* C4 witness: with a task bound, a call with a version not above the stored
\* one has returned Empty, leaving store, task and pushes as they were.
C4_Witness ==
    \E c \in Calls :
        /\ pc[c] = "done" /\ NotHigher(c) /\ ret[c] = "Empty"
        /\ taskBound /\ taskSettings = NoSettings
        /\ stored = initialSettings /\ posts = 0

\* C5: an applied write is stored first, then handed to the bound task (if
\* any), then state is posted, then the call returns; the push is issued
\* exactly once per applied write.
C5_ApplyOrder ==
    /\ [](\A c \in Calls :
            /\ tasked[c] => wrote[c]
            /\ pc[c] = "post" => (wrote[c] /\ (taskBound => tasked[c]) /\ posted[c] = 0)
            /\ posted[c] > 0 => (wrote[c] /\ (taskBound => tasked[c]))
            /\ (pc[c] = "done" /\ wrote[c]) => (posted[c] = 1 /\ ret[c] = "Empty")
            /\ ret[c] # "none" => pc[c] = "done"
            /\ posted[c] <= 1)
    /\ [](posts = Cardinality({c \in Calls : posted[c] = 1}))
    /\ [][\A c \in Calls :
            (pc[c] = "task" /\ pc'[c] = "post" /\ taskBound)
                => taskSettings' = SettingsOf(c)]_vars

\* C5 witness: a call has stored its settings, updated the bound task,
\* posted state once and returned.
C5_Witness ==
    \E c \in Calls :
        /\ pc[c] = "done" /\ wrote[c] /\ tasked[c] /\ posted[c] = 1
        /\ ret[c] = "Empty" /\ taskSettings = SettingsOf(c)

\* C22: a call that finds no stored settings compares against version 1:
\* its write is not applied when it carries version 1, and every write
\* applied to an empty store, by whatever call, carries version 2 or more.
C22_DefaultVersionOne ==
    [][ /\ \A c \in Calls :
              (pc[c] = "getState" /\ pc'[c] = "compare" /\ stored = NoSettings)
                  => currentVersion'[c] = 1
        /\ \A c \in Calls :
              (pc[c] = "compare" /\ currentVersion[c] = 1 /\ request[c].version <= 1)
                  => (pc'[c] \in {"compare", "done"} /\ ~wrote'[c])
        /\ (stored = NoSettings /\ stored' # NoSettings) => stored'.version >= 2
      ]_vars

\* C22 witness: nothing was stored at the start; a call with version 1 has
\* returned without writing and a call with version 2 has been applied.
C22_Witness ==
    /\ initialSettings = NoSettings
    /\ \E c, d \in Calls :
           /\ pc[c] = "done" /\ request[c].version = 1 /\ currentVersion[c] = 1
           /\ ~wrote[c]
           /\ pc[d] = "done" /\ request[d].version = 2 /\ currentVersion[d] = 1
           /\ wrote[d]
    /\ stored.version = 2

\* ------------------------------------------------------------------------
\* Properties of the triggerSelectFiles subscriptions
\* ------------------------------------------------------------------------

Active == activeTriggerSelectFilesSubscriptions

FailedNow == {ch \in Chans :
    \E p \in Pubs : dstate[p][ch] # "failed" /\ dstate'[p][ch] = "failed"}

StartsNow(p) == pstate[p] = "idle" /\ pstate'[p] = "running"

AttemptedSet(att) == {ch \in Chans : att[ch] > 0}

\* C6: a stream whose delivery fails leaves the active set while every other
\* member stays, and every publish started afterwards attempts only streams
\* that are in the set when it starts.
C6_FailedRemoved ==
    [][ /\ (FailedNow # {}) => (Active' = Active \ FailedNow)
        /\ \A p \in Pubs : StartsNow(p) => AttemptedSet(attempts'[p]) \subseteq Active
      ]_vars

\* C6 witness: of the subscribers {1, 2, 3} the delivery to 2 failed and the
\* other two succeeded; the active set is {1, 3}.
C6_Witness ==
    \E p \in Pubs :
        /\ pstate[p] = "running"
        /\ snapshot[p] = {1, 2, 3}
        /\ dstate[p][1] = "ok" /\ dstate[p][2] = "failed" /\ dstate[p][3] = "ok"
        /\ Active = {1, 3}

\* C7: a publish calls each stream that is in the active set when it starts
\* exactly once and no other stream, and nothing that happens while it is in
\* flight (subscribe, cleanup, deliveries) changes the calls it makes.
C7_SnapshotAttempts ==
    [][\A p \in Pubs :
          /\ StartsNow(p) =>
                attempts'[p] = [ch \in Chans |-> IF ch \in Active THEN 1 ELSE 0]
          /\ (pstate[p] = "running" /\ pstate'[p] = "running") =>
                attempts'[p] = attempts[p]
      ]_vars

\* C7 witness: during a publish one stream has joined the set and has not
\* been called, while a stream of the snapshot has been cleaned up and keeps
\* its single call; a delivery of this publish has already completed.
C7_Witness ==
    \E p \in Pubs : \E a, b, c \in Chans :
        /\ pstate[p] = "running"
        /\ a \in Active /\ a \notin snapshot[p] /\ attempts[p][a] = 0
        /\ b \in snapshot[p] /\ b \notin Active /\ attempts[p][b] = 1
        /\ dstate[p][b] = "pending"
        /\ c \in snapshot[p] /\ dstate[p][c] = "ok"

\* C8: subscribing puts the stream in the active set and, with a request id,
\* registers it under that id; when the registry entry is torn down the
\* stream is out of the set, and a publish started later does not call a
\* stream that is out of the set.
C8_SubscribeRegistersCleanup ==
    [][ /\ \A ch \in Chans, id \in Ids \cup {NoId} :
              subscribeToTriggerSelectFiles(ch, id)
                  => (ch \in Active' /\ (id # NoId => registry'[id] = ch))
        /\ \A id \in Ids :
              (registry[id] # NoChan /\ registry'[id] = NoChan)
                  => registry[id] \notin Active'
        /\ \A p \in Pubs : StartsNow(p) =>
              \A ch \in Chans \ Active : attempts'[p][ch] = 0
      ]_vars

\* C8 witness: a stream that was in the set when the running publish started
\* has left it without a delivery failure, by the teardown of its request,
\* whose registry entry is gone.
C8_Witness ==
    \E p \in Pubs, ch \in Chans :
        /\ pstate[p] = "running"
        /\ ch \in snapshot[p] /\ dstate[p][ch] # "failed"
        /\ ch \notin Active
        /\ \A id \in Ids : registry[id] = NoChan

\* C9: while a publish is in flight every stream of its snapshot has been
\* called, whether or not the deliveries to the others have completed.
C9_AllStartedAtOnce ==
    \A p \in Pubs :
        pstate[p] = "running" =>
            \A ch \in snapshot[p] : attempts[p][ch] >= 1 /\ dstate[p][ch] # "none"

\* C9 witness: a publish to three streams is in flight, none of the
\* deliveries has completed and all three have been started.
C9_Witness ==
    \E p \in Pubs :
        /\ pstate[p] = "running"
        /\ Cardinality(snapshot[p]) >= 3
        /\ \A ch \in snapshot[p] : dstate[p][ch] = "pending"

\* C10 as stated: a publish in flight can return whatever the state of its
\* deliveries.
C10_ReturnsWithoutWaiting ==
    \A p \in Pubs : pstate[p] = "running" => ENABLED PublishReturn(p)

\* C10 amended: sendTriggerSelectFilesEvent returns only when every delivery
\* of its snapshot has resolved or rejected, so a delivery that never
\* completes keeps it from returning.
C10_ReturnsAfterAllSettled ==
    [][\A p \in Pubs :
          (pstate[p] = "running" /\ pstate'[p] = "returned")
              => \A ch \in snapshot[p] : dstate[p][ch] \in {"ok", "failed"}
      ]_vars

\* C10 witness: a publish is still in flight because one delivery is
\* pending although another delivery has completed.
C10_Witness ==
    \E p \in Pubs : \E a, b \in Chans :
        /\ pstate[p] = "running"
        /\ a \in snapshot[p] /\ dstate[p][a] = "pending"
        /\ b \in snapshot[p] /\ dstate[p][b] = "ok"
        /\ ~ENABLED PublishReturn(p)

\* C11 as stated: a stream whose delivery fails during a publish is not
\* called again in that publish, leaves the active set, and no Request
\* Registry entry holds it any longer.
C11_FailedUnregistered ==
    [][\A p \in Pubs, ch \in Chans :
          (dstate[p][ch] = "pending" /\ dstate'[p][ch] = "failed")
              => /\ attempts'[p][ch] = attempts[p][ch]
                 /\ ch \notin Active'
                 /\ \A id \in Ids : registry'[id] # ch
      ]_vars

\* The publishes that complete in this step.
CompletesNow(p) == pstate[p] = "running" /\ pstate'[p] # "running"

\* C12: sendTriggerSelectFilesEvent never throws: whatever subset of its
\* deliveries failed, a publish that completes has returned normally; a
\* failing delivery leaves the deliveries to the other streams as they were,
\* and once every delivery has resolved or rejected the publish can return.
C12_PublishNeverFails ==
    /\ [](\A p \in Pubs : pstate[p] # "threw")
    /\ [][\A p \in Pubs : CompletesNow(p) => pstate'[p] = "returned"]_vars
    /\ [][\A p \in Pubs, ch \in Chans :
              (dstate[p][ch] = "pending" /\ dstate'[p][ch] = "failed")
                  => \A o \in Chans \ {ch} :
                         dstate'[p][o] = dstate[p][o] /\ attempts'[p][o] = attempts[p][o]
        ]_vars
    /\ [](\A p \in Pubs :
              (pstate[p] = "running" /\ AllSettled(p)) => ENABLED PublishReturn(p))

\* C12 witness: the first publish returned normally although the delivery
\* to a stream failed (the stream is registered and gone from the set), and
\* in the second publish every delivery but one failed, the last one
\* succeeded, and the publish is about to return.
C12_Witness ==
    /\ pstate[1] = "returned"
    /\ pstate[2] = "running"
    /\ \E ch \in Chans : registry[1] = ch /\ ch \notin snapshot[2]
    /\ Cardinality(snapshot[2]) >= 2
    /\ \E ok \in snapshot[2] :
           /\ dstate[2][ok] = "ok"
           /\ \A o \in snapshot[2] \ {ok} : dstate[2][o] = "failed"
    /\ ENABLED PublishReturn(2)

\* C23: each invocation of a stream's cleanup closure leaves the active
\* set without that stream and with every other member it had; an
\* invocation after the first one changes nothing.
C23_CleanupIdempotentLocal ==
    [][\A ch \in Chans :
          RunCleanup(ch)
              => /\ Active' = Active \ {ch}
                 /\ \A o \in Chans \ {ch} : (o \in Active') <=> (o \in Active)
                 /\ (ch \notin Active) => Active' = Active
      ]_vars

\* C23 witness: the cleanup of one stream has been invoked twice; the stream
\* is out of the set and the two other subscribers are in it.
C23_Witness ==
    \E ch \in Chans :
        /\ cleanupRuns[ch] = 2
        /\ ch \notin Active
        /\ Cardinality(Active) = 2
        /\ \A o \in Active : cleanupRuns[o] = 0

\* The streams no registry entry holds.
Unregistered == {ch \in Chans : \A id \in Ids : registry[id] # ch}

\* C24: a subscribe without request id puts the stream in the active set
\* and leaves the registry as it was; a stream that no registry entry holds
\* leaves the set only by a failed delivery (a teardown does not remove it);
\* and every publish calls every stream that is in the set when it starts.
C24_NoIdNoTeardown ==
    [][ /\ \A ch \in Chans :
              subscribeToTriggerSelectFiles(ch, NoId)
                  => (ch \in Active' /\ registry' = registry)
        /\ \A ch \in Unregistered :
              (ch \in Active /\ ch \notin Active') => ch \in FailedNow
        /\ \A id \in Ids : Teardown(id) => \A ch \in Unregistered \cap Active : ch \in Active'
        /\ \A p \in Pubs : StartsNow(p) => \A ch \in Active : attempts'[p][ch] = 1
      ]_vars

\* C24 witness: the registry is empty after the teardown that took a
\* stream of the running second publish out of the set, while another
\* stream, held by no entry, is still in the set and has been called by
\* this publish, the first publish having returned.
C24_Witness ==
    \E a, b \in Chans :
        /\ pstate[1] = "returned" /\ pstate[2] = "running"
        /\ \A id \in Ids : registry[id] = NoChan
        /\ b \in snapshot[2] /\ b \notin Active /\ dstate[2][b] # "failed"
        /\ a \in Active /\ a \in snapshot[2] /\ attempts[2][a] = 1

\* ------------------------------------------------------------------------
\* Properties of ensureClineViewIsVisible
\* ------------------------------------------------------------------------

WaitBound == WaitTimeoutMs + PollIntervalMs

\* C13: the call issues the focus command first and starts polling only
\* when that command has completed; the polling is bounded by the timeout;
\* and when the wait ends without an instance the call shows one error
\* message and returns null, it does not throw.
C13_FocusThenBoundedWait ==
    /\ [](viewPc \in {"wait", "sendFocus"} => focusCommands = 1)
    /\ [][(viewPc # "wait" /\ viewPc' = "wait") => viewPc = "focus"]_vars
    /\ [][(elapsed' # elapsed) => (viewPc = "wait" \/ viewPc' = "focus")]_vars
    /\ [](elapsed < WaitBound)
    /\ [][(waitOutcome # "timeout" /\ waitOutcome' = "timeout")
            => /\ ~Available(lastActiveInstance)
               /\ elapsed >= WaitTimeoutMs
               /\ viewPc' = "done"
               /\ viewResult' = Null
               /\ shownMessages' = <<CouldNotActivate>>
       ]_vars

\* C13 witness: a call issued the focus command, polled until the timeout
\* without finding an instance, showed the message and returned null.
C13_Witness ==
    /\ viewPc = "done"
    /\ focusCommands = 1
    /\ waitOutcome = "timeout"
    /\ elapsed >= WaitTimeoutMs
    /\ viewResult = Null
    /\ shownMessages = <<CouldNotActivate>>

\* C14: a call that has reached its wait always completes; the wait never
\* lasts beyond its bound; it resolves only on a poll that finds an
\* instance, so with no instance ever available it ends by the timeout,
\* with null; and a call's result, once set, is not set again.
C14_WaitTerminatesWithNull ==
    /\ (viewPc = "wait") ~> (viewPc = "done")
    /\ ([]~Available(lastActiveInstance))
          => []((viewPc = "wait") => <>(viewPc = "done" /\ viewResult = Null
                                          /\ waitOutcome = "timeout"))
    /\ [](viewPc = "wait" => elapsed < WaitBound)
    /\ [][(waitOutcome = "none" /\ waitOutcome' = "resolved")
            => Available(lastActiveInstance)]_vars
    /\ [][(viewResult # NoResult)
            => (viewResult' = viewResult \/ viewPc' = "focus")]_vars

\* C14 witness: both calls were made with no instance available, and the
\* second has ended by the timeout, with null and a single message.
C14_Witness ==
    /\ viewCalls = NumViewCalls
    /\ viewPc = "done"
    /\ waitOutcome = "timeout"
    /\ lastActiveInstance = NoInst
    /\ activeWebview = NoInst
    /\ viewResult = Null
    /\ Len(shownMessages) = 1

\* C15 as stated: when the wait has resolved on an instance that has a
\* client id, the call returns the controller of that instance.
C15_ResolvedWaitReturnsController ==
    (viewPc = "done" /\ waitOutcome = "resolved" /\ clientIdOf[polledInstance])
        => viewResult = ControllerOf(polledInstance)

\* C16 as stated: a call never ends by throwing; when the focus command is
\* absent or fails the call ends with a message and null.
C16_FocusFailureContained ==
    viewPc = "done" => (viewResult # Threw /\ waitOutcome # "none")

\* C25: a call that has returned a controller has sent exactly one focus
\* event, to the instance whose controller it returned, and that instance
\* has a client id; the controller is returned by the step that follows the
\* sending; a call that has returned null (or has not returned a
\* controller) has sent no focus event.
C25_FocusEventBeforeController ==
    /\ [](viewResult.kind = "controller"
              => (focusEvents = <<viewResult.inst>> /\ clientIdOf[viewResult.inst]))
    /\ [](viewResult.kind # "controller" => focusEvents = <<>>)
    /\ [][(viewResult.kind # "controller" /\ viewResult'.kind = "controller")
            => (viewPc = "sendFocus" /\ focusEvents' = <<activeWebview>>)]_vars

\* C25 witness: a call found an instance with a client id, sent it the
\* focus event and returned its controller.
C25_Witness ==
    /\ viewPc = "done"
    /\ viewResult.kind = "controller"
    /\ focusEvents = <<viewResult.inst>>
    /\ waitOutcome = "resolved"

\* C26: a call whose wait timed out returns null, and so does a call whose
\* wait resolved without an instance or a client id to work on; a call
\* that returned null has shown exactly one error message, a call that
\* returned a controller none.
C26_NullWithOneMessage ==
    /\ [](viewPc = "done" =>
              /\ waitOutcome = "timeout" => viewResult = Null
              /\ (waitOutcome = "resolved"
                     /\ (activeWebview = NoInst \/ ~clientIdOf[activeWebview]))
                  => viewResult = Null)
    /\ [](viewResult = Null =>
              /\ Len(shownMessages) = 1
              /\ shownMessages[1] \in {CouldNotActivate, CouldNotFind})
    /\ [](viewResult.kind = "controller" => shownMessages = <<>>)

\* C26 witness: the wait of a call resolved on an instance, the instance
\* the call works on has no client id, and the call showed one message and
\* returned null.
C26_Witness ==
    /\ viewPc = "done"
    /\ waitOutcome = "resolved"
    /\ activeWebview # NoInst /\ ~clientIdOf[activeWebview]
    /\ viewResult = Null
    /\ shownMessages = <<CouldNotFind>>

\* ------------------------------------------------------------------------
\* Properties of the request registry
\* ------------------------------------------------------------------------

Live(id) == registry[id] # NoChan

LastOp(id) == IF opLog[id] = <<>> THEN "none" ELSE opLog[id][Len(opLog[id])]

\* C17: after any sequence of register and unregister calls an id resolves
\* to a live entry exactly when the last call on it was a register; a
\* register on an id replaces the entry of that id (one entry per id, the
\* entries of other ids untouched); and an unregister on an id whose last
\* call was already an unregister changes neither the registry nor the set.
C17_LiveIffLastRegister ==
    /\ [](\A id \in Ids : Live(id) <=> LastOp(id) = "register")
    /\ [][\A ch \in Chans, id \in Ids :
              RegisterRequest(ch, id)
                  => /\ registry'[id] = ch
                     /\ \A o \in Ids \ {id} : registry'[o] = registry[o]
        ]_vars
    /\ [][\A id \in Ids :
              (UnregisterRequest(id) /\ LastOp(id) = "unregister")
                  => (registry' = registry /\ Active' = Active)
        ]_vars

\* C17 witness: an id was registered twice, then unregistered twice; it
\* has no live entry.
C17_Witness ==
    \E id \in Ids :
        /\ opLog[id] = <<"register", "register", "unregister", "unregister">>
        /\ ~Live(id)

\* ------------------------------------------------------------------------
\* Properties of the streaming dispatcher
\* ------------------------------------------------------------------------

IsPrefix(a, b) == Len(a) <= Len(b) /\ \A i \in 1..Len(a) : a[i] = b[i]

\* C18: in every streaming exchange a message with isLast = true is the
\* last one accepted and the last one delivered; once it has been pushed no
\* further push is accepted; and the messages are delivered in the order
\* of their submission.
C18_TerminalPushIsLast ==
    /\ [](\A id \in Streams :
              /\ IsPrefix(delivered[id], submitted[id])
              /\ \A i \in 1..Len(submitted[id]) :
                     submitted[id][i].isLast => i = Len(submitted[id])
              /\ \A i \in 1..Len(delivered[id]) :
                     delivered[id][i].isLast => i = Len(delivered[id])
              /\ \A i, j \in 1..Len(delivered[id]) :
                     i < j => delivered[id][i].n < delivered[id][j].n)
    /\ [][\A id \in Streams :
              terminated[id] => (submitted'[id] = submitted[id] /\ terminated'[id])
        ]_vars

\* C18 witness: an exchange delivered a message and then its terminal
\* message, in that order, and a push made after the terminal one was
\* skipped.
C18_Witness ==
    \E id \in Streams :
        /\ Len(delivered[id]) = 2
        /\ ~delivered[id][1].isLast /\ delivered[id][2].isLast
        /\ delivered[id] = submitted[id]
        /\ missed[id] = 1

\* ------------------------------------------------------------------------
\* Properties of the StateManager
\* ------------------------------------------------------------------------

\* The value of the first of the layers that holds one; without any, what
\* the lowest layer has.
FirstPresent(layers) ==
    IF \E i \in 1..Len(layers) : Truthy(layers[i])
    THEN layers[CHOOSE i \in 1..Len(layers) :
                    Truthy(layers[i]) /\ \A j \in 1..(i - 1) : ~Truthy(layers[j])]
    ELSE layers[Len(layers)]

\* C19 as stated: every field of the object getApiConfiguration computes is
\* the task override when there is one, else the mode value, else the
\* global value: the base URL (no mode value) is the task's or the global
\* one, and the model of each mode is the task's or the one of the mode.
C19_TaskModeGlobalPrecedence ==
    /\ getApiConfiguration.yourProviderBaseUrl =
           FirstPresent(<<taskStateCache["yourProviderBaseUrl"],
                          globalStateCache["yourProviderBaseUrl"]>>)
    /\ \A m \in Modes :
           getModeSpecificFields(getApiConfiguration, m) =
               FirstPresent(<<taskStateCache[ModeKey(m)], globalStateCache[ModeKey(m)]>>)

C27_DispatchOncePerCall ==
    /\ cmdPc = "formatting" =>
           dispatched = <<>> /\ telemetry = <<>> /\ cmdRet = "none"
    /\ cmdPc \in {"dispatching", "returned", "threw"} =>
           dispatched = <<[text |-> formatContext(ContextOf(handler, cmdRequest)),
                           submit |-> (cmdRequest.submit = "true")]>>
    /\ cmdPc = "dispatching" => telemetry = <<>> /\ cmdRet = "none"
    /\ cmdPc = "returned" => telemetry = <<ButtonOf(handler)>> /\ cmdRet = "Empty"
    /\ cmdPc = "threw" => telemetry = <<>>

\* C27 witness: addToCline returned for a request without a submit flag,
\* with a prompt and a selection: one dispatch of the two parts, not
\* submitted, and one telemetry event.
C27_Witness ==
    /\ cmdPc = "returned"
    /\ handler = "addToCline"
    /\ cmdRequest.submit = "undefined"
    /\ Given(cmdRequest.prompt)
    /\ Given(cmdRequest.selectedText)
    /\ Len(dispatched) = 1
    /\ dispatched[1].submit = FALSE
    /\ dispatched[1].text = formattedText.s
    /\ Len(telemetry) = 1

\* The five parts of a context in their order, each with whether the
\* context has it and with its text.
PartsOf(c) ==
    << [present |-> Given(c.prompt), text |-> c.prompt.s],
       [present |-> Given(c.filePath), text |-> getFileMentionFromPath(c.filePath.s)],
       [present |-> c.codeSelection.def,
        text |-> <<Fence>> \o c.codeSelection.languageId \o <<NL>>
                     \o c.codeSelection.text \o <<NL, Fence>>],
       [present |-> Given(c.terminalOutput),
        text |-> <<"Terminal output:", NL, Fence, NL>> \o c.terminalOutput.s
                     \o <<NL, Fence>>],
       [present |-> c.diagnostics.def /\ c.diagnostics.list # <<>>,
        text |-> trim(<<"Problems:", NL>> \o ProblemLines(c.diagnostics.list))] >>

PresentParts(c) == SelectSeq(PartsOf(c), LAMBDA part : part.present)

\* The texts ps[i..], each followed by a blank line except the last.
RECURSIVE BlankLineSeparated(_, _)
BlankLineSeparated(ps, i) ==
    IF i > Len(ps) THEN <<>>
    ELSE ps[i].text \o (IF i < Len(ps) THEN <<NL, NL>> ELSE <<>>)
             \o BlankLineSeparated(ps, i + 1)

RequestFailed ==
    \/ response.kind = "rejected"
    \/ response.kind = "response" /\ (~response.ok \/ ~response.hasBody)

\* C21: the constructor throws exactly when the token is missing or empty,
\* and then there is no handler to call; every chunk yielded is a text or a
\* usage chunk; when the fetch rejects, or the response is not OK or has no
\* body, the generator takes no reader and yields no chunk, and it ends by
\* throwing: the network error, the API error once the error text is read,
\* the missing-body error.
C21_FailsBeforeAnyChunk ==
    /\ [](constructed = "threw" => token = <<>> /\ genPc = "none")
    /\ [](constructed = "yes" => token # <<>>)
    /\ [](\A i \in 1..Len(yielded) : yielded[i].type \in {"text", "usage"})
    /\ [](RequestFailed =>
            /\ yielded = <<>>
            /\ ~acquired
            /\ genPc \in {"errorText", "threw"}
            /\ genPc = "errorText" => ~response.ok)
    /\ [](genPc = "threw" => genError # "none")
    /\ [](genPc = "threw" /\ response.kind = "rejected" =>
            genError = "GitHub Copilot API network error")
    /\ [](response = Response(TRUE, FALSE) =>
            genError = "No response body from GitHub Copilot API")
    /\ [][genPc = "errorText" => genPc' = "threw"]_vars
    /\ [][ErrorTextResolves => genError' = "GitHub Copilot API error"]_vars

\* C21 witness: the response to a request whose body would have carried
\* a text event was not OK: the generator threw the API error, having
\* yielded nothing.
C21_Witness ==
    /\ constructed = "yes"
    /\ response = Response(FALSE, TRUE)
    /\ genPc = "threw"
    /\ genError = "GitHub Copilot API error"
    /\ yielded = <<>>
    /\ body = <<Prefix, TextEvent, NL>>

\* C29: once a [DONE] line was processed the generator is finished, and
\* from then on no chunk is yielded and nothing more is read from the
\* body, whatever lines of the same read, buffer content or unread body
\* follow.
C29_NothingAfterDone ==
    /\ [](doneSeen => genPc = "done")
    /\ [][doneSeen => (yielded' = yielded /\ body' = body /\ buffer' = buffer)]_vars

\* C29 witness: [DONE] was processed in a read that also held a complete
\* text line after it and the start of another data line, now in the
\* buffer, with the rest of that line still unread in the body.
C29_Witness ==
    /\ doneSeen
    /\ lines = << <<Prefix, TextEvent>> >>
    /\ buffer = <<Prefix>>
    /\ body = <<TextEvent>>
    /\ yielded = <<>>

\* C30: a generator that took the reader and has finished has released
\* the lock, however it finished: at the end of the stream, at [DONE], by
\* a read error, or by the consumer's return at a yield; and the lock is
\* held only while the generator reads or stands at a yield.
C30_LockReleased ==
    /\ (acquired /\ genPc \in {"done", "threw"}) => ~readerLocked
    /\ finishedBy \in {"end", "[DONE]", "error"} => (acquired /\ ~readerLocked)
    /\ finishedBy = "return" => ~readerLocked
    /\ readerLocked => genPc \in {"reading", "suspended"}

\* C30 witness: the consumer returned at the first yield, with more of the
\* body unread: the reader was taken and its lock is released.
C30_Witness ==
    /\ finishedBy = "return"
    /\ acquired
    /\ ~readerLocked
    /\ yielded = <<TextChunk>>
    /\ body # <<>>

\* The lines of a text that are ended by a line break.
CompleteLines(text) == SubSeq(Split(text), 1, Len(Split(text)) - 1)

\* What follows the last line break of a text.
Unterminated(text) == Split(text)[Len(Split(text))]

\* The lines before the first [DONE] line.
RECURSIVE BeforeDone(_)
BeforeDone(ls) ==
    IF ls = <<>> \/ ls[1] = <<Prefix, DoneSignal>> THEN <<>>
    ELSE <<ls[1]>> \o BeforeDone(Tail(ls))

\* A data line whose payload is one whole event.
WellFormed(line) == Len(line) = 2 /\ line[1] = Prefix /\ line[2] \in Events

\* The chunks of one event: a text chunk when its first choice has a delta
\* with content, then a usage chunk when it has such a delta (with or
\* without content) and usage totals.
ChunksForEvent(e) ==
    CASE e = TextEvent -> <<TextChunk>>
      [] e = TextUsageEvent -> <<TextChunk, UsageChunk>>
      [] e = DeltaUsageEvent -> <<UsageChunk>>
      [] e = UsageEvent -> <<>>

RECURSIVE ChunksForLines(_)
ChunksForLines(ls) ==
    IF ls = <<>> THEN <<>>
    ELSE (IF WellFormed(ls[1]) THEN ChunksForEvent(ls[1][2]) ELSE <<>>)
             \o ChunksForLines(Tail(ls))

\* The chunks a text stands for: those of its complete lines before [DONE].
Expected(text) == ChunksForLines(BeforeDone(CompleteLines(text)))

\* The generator has worked through all it has read.
CaughtUp == genPc = "reading" \/ finishedBy \in {"end", "[DONE]"}

\* C31: whenever the generator has worked through what it has read, the
\* chunks yielded are those of the complete lines of the content read so
\* far, in the order of the lines and once each, whatever the reads were;
\* at a yield they are the first of these chunks. The chunks are thus
\* determined by the content alone, and a line that came in several reads
\* counts as one line.
C31_SplitIndependent ==
    /\ CaughtUp => yielded = Expected(received)
    /\ genPc = "suspended" => IsPrefix(yielded \o pending, Expected(received))
    /\ received \o body \in Bodies

\* C31 witness: a single text line came in several reads, one of which
\* ended inside the line, and the stream ended: one text chunk.
C31_Witness ==
    /\ cutInLine
    /\ finishedBy = "end"
    /\ received = <<Prefix, TextEvent, NL>>
    /\ yielded = <<TextChunk>>

\* C32: the end of the stream yields nothing and finishes the generator;
\* after it the buffer still holds what followed the last line break, and
\* the chunks yielded are those of the content without that rest.
C32_UnterminatedTailDropped ==
    /\ [][ReadDone => (yielded' = yielded /\ genPc' = "done")]_vars
    /\ [](finishedBy = "end" =>
            /\ buffer = Unterminated(received)
            /\ yielded = Expected(SubSeq(received, 1, Len(received) - Len(buffer))))

\* C32 witness: the stream ended after a text line without a line break:
\* the line is in the buffer and no chunk was yielded.
C32_Witness ==
    /\ finishedBy = "end"
    /\ received = <<Prefix, TextEvent>>
    /\ buffer = <<Prefix, TextEvent>>
    /\ yielded = <<>>

\* A data line with a payload that is not JSON, an empty data line, or a
\* line without the data prefix.
Skipped(line) ==
    \/ line = <<>>
    \/ line[1] # Prefix
    \/ line = <<Prefix>>
    \/ line[1] = Prefix /\ ~WellFormed(line) /\ line # <<Prefix, DoneSignal>>

\* The lines a read completes: those of the buffer and the pieces read.
LinesOfRead == CompleteLines(buffer \o SubSeq(body, 1, Len(body) - Len(body')))

\* C33: a read that completes only lines with a bad payload, empty data
\* lines and non-data lines yields nothing and leaves the generator
\* reading; the generator ends at [DONE] only when a [DONE] line was read,
\* and once it has the reader it fails only when a read fails; the chunks
\* yielded are those of the well-formed lines before [DONE], the skipped
\* lines between them left out.
C33_BadLinesSkipped ==
    /\ [][(genPc = "reading" /\ body' # body
             /\ \A i \in 1..Len(LinesOfRead) : Skipped(LinesOfRead[i]))
            => (yielded' = yielded /\ genPc' = "reading" /\ genError' = genError)]_vars
    /\ [](finishedBy = "[DONE]" =>
            \E i \in 1..Len(CompleteLines(received)) :
                CompleteLines(received)[i] = <<Prefix, DoneSignal>>)
    /\ []((acquired /\ genPc = "threw") => genError = "read error")
    /\ [](CaughtUp =>
            yielded = ChunksForLines(SelectSeq(BeforeDone(CompleteLines(received)),
                                               WellFormed)))

\* C33 witness: a line with a bad payload and then a text line were read
\* and the stream ended: the text chunk was yielded.
C33_Witness ==
    /\ finishedBy = "end"
    /\ received = <<Prefix, BadJson, NL, Prefix, TextEvent, NL>>
    /\ yielded = <<TextChunk>>

\* C34: a read that completes exactly one line, a well-formed event,
\* yields or leaves to be yielded the chunks of that event and no other:
\* at most a text chunk and then at most a usage chunk, and none for an
\* event with usage totals and no delta in its first choice, after which
\* the generator reads on. What is left to yield after a yield is at most
\* one usage chunk.
C34_ChunksPerEvent ==
    /\ [][(genPc = "reading" /\ body' # body /\ Len(LinesOfRead) = 1
             /\ WellFormed(LinesOfRead[1]))
            => /\ yielded' \o pending' = yielded \o ChunksForEvent(LinesOfRead[1][2])
               /\ LinesOfRead[1][2] = UsageEvent => genPc' = "reading"]_vars
    /\ [](pending \in {<<>>, <<UsageChunk>>})
    /\ [](pending # <<>> => yielded[Len(yielded)] = TextChunk)

\* C34 witness: an event with usage totals and no delta was read, then an
\* event with content and usage totals, whose text chunk was yielded and
\* whose usage chunk is still to come.
C34_Witness ==
    /\ received = <<Prefix, UsageEvent, NL, Prefix, TextUsageEvent, NL>>
    /\ genPc = "suspended"
    /\ yielded = <<TextChunk>>
    /\ pending = <<UsageChunk>>

\* The user and assistant messages among the messages given.
UserAndAssistant ==
    SelectSeq(messages, LAMBDA message : message.role \in {"user", "assistant"})

\* C35: the array transformMessages returns starts with a system message
\* carrying the prompt exactly when the prompt is not empty; after it come
\* the user and assistant messages given, one for one and in their order,
\* each with its role and with its content (the empty string where it had
\* none); there is nothing else in it, so the messages of other roles are
\* not there.
C35_SystemThenUserAssistant ==
    trPc = "transformed" =>
        LET sys == IF Given(systemPrompt) THEN 1 ELSE 0
        IN /\ Len(transformed) = sys + Len(UserAndAssistant)
           /\ sys = 1 =>
                  transformed[1] =
                      [role |-> "system", content |-> StringContent(systemPrompt.s)]
           /\ \A i \in 1..Len(UserAndAssistant) :
                  /\ transformed[sys + i].role = UserAndAssistant[i].role
                  /\ transformed[sys + i].content =
                         IF UserAndAssistant[i].content \in {NoContent, StringContent(<<>>)}
                         THEN StringContent(<<>>)
                         ELSE UserAndAssistant[i].content

\* C35 witness: with a prompt, a tool message and a user message without
\* content were given: the result is the system message and the user
\* message.
C35_Witness ==
    /\ trPc = "transformed"
    /\ systemPrompt = Str(<<"be brief">>)
    /\ messages = <<[role |-> "tool", content |-> StringContent(<<"hi">>)],
                    [role |-> "user", content |-> NoContent]>>
    /\ transformed = <<[role |-> "system", content |-> StringContent(<<"be brief">>)],
                       [role |-> "user", content |-> StringContent(<<>>)]>>

====
